---- MODULE Spec2Model ----
(***************************************************************************)
(* Model of the .ftl analyzer of pz-utils: discovery of locale trees       *)
(* (discover.ts), normalisation of parsed entries and the comparison of    *)
(* every locale with the source locale (FtlAnalyzer.ts, helpers.ts).       *)
(*                                                                         *)
(* Strings are sequences of tokens.  A token is either one punctuation     *)
(* character (" ", "\n", "#", ",", "$", "?", "@", "-", ".", "*") or a word *)
(* of identifier characters, so that indexOf, slice, trim, split and the   *)
(* two parameter regular expressions act on them as they act on the        *)
(* characters of the source strings.                                       *)
(***************************************************************************)
EXTENDS Integers, Sequences, FiniteSets, TLC

\* ------------------------------------------------------------- strings

Punct == {" ", "\n", "#", ",", "$", "?", "@", "-", ".", "*"}

IsWord(t) == t \notin Punct

IsSpace(t) == t \in {" ", "\n"}

\* String.prototype.indexOf for a one-character needle: 0-based, -1 if absent.
IndexOf(s, t) ==
    IF \E i \in 1..Len(s) : s[i] = t
    THEN (CHOOSE i \in 1..Len(s) : s[i] = t /\ \A j \in 1..(i - 1) : s[j] # t) - 1
    ELSE -1

\* s.slice(a, b) and s.slice(a) for 0 <= a.
Slice(s, a, b) == SubSeq(s, a + 1, b)

SliceFrom(s, a) == SubSeq(s, a + 1, Len(s))

RECURSIVE TrimStart(_)
TrimStart(s) ==
    IF s # <<>> /\ IsSpace(Head(s)) THEN TrimStart(Tail(s)) ELSE s

RECURSIVE TrimEnd(_)
TrimEnd(s) ==
    IF s # <<>> /\ IsSpace(s[Len(s)]) THEN TrimEnd(SubSeq(s, 1, Len(s) - 1)) ELSE s

Trim(s) == TrimStart(TrimEnd(s))

\* s.split(t): the pieces between the occurrences of t.
RECURSIVE Split(_, _)
Split(s, t) ==
    LET i == IndexOf(s, t)
    IN  IF i = -1 THEN <<s>> ELSE <<Slice(s, 0, i)>> \o Split(SliceFrom(s, i + 1), t)

\* The matches of REGEXP_LINE: each line with its line break.
RECURSIVE Lines(_)
Lines(s) ==
    IF s = <<>> THEN <<>>
    ELSE LET i == IndexOf(s, "\n")
         IN  IF i = -1 THEN <<s>> ELSE <<Slice(s, 0, i + 1)>> \o Lines(SliceFrom(s, i + 1))

RECURSIVE Join(_, _)
Join(ss, sep) ==
    IF ss = <<>> THEN <<>>
    ELSE IF Len(ss) = 1 THEN ss[1]
    ELSE ss[1] \o sep \o Join(Tail(ss), sep)

\* toLowerCase / toUpperCase on the words the model uses.
LowerTok(t) ==
    CASE t = "Message" -> "message"
      [] t = "Attribute" -> "attribute"
      [] t = "FTL" -> "ftl"
      [] OTHER -> t

UpperTok(t) ==
    CASE t = "ftl" -> "FTL"
      [] t = "txt" -> "TXT"
      [] OTHER -> t

ToLower(s) == [i \in 1..Len(s) |-> LowerTok(s[i])]

ToUpper(s) == [i \in 1..Len(s) |-> UpperTok(s[i])]

EndsWith(s, suf) ==
    Len(s) >= Len(suf) /\ SubSeq(s, Len(s) - Len(suf) + 1, Len(s)) = suf

RangeOf(s) == {s[i] : i \in 1..Len(s)}

\* ------------------------------------------------------- warning codes

DoNotTranslate == <<"do", "-", "not", "-", "translate">>
Identical == <<"identical">>
Duplicate == <<"duplicate">>
MismatchIdentical == <<"mismatch", "-", "identical">>
MismatchFileBundle == <<"mismatch", "-", "file", "-", "bundle">>
UnknownFile == <<"unknown", "-", "file">>
UnknownMessage == <<"unknown", "-", "message">>
UnknownAttribute == <<"unknown", "-", "attribute">>
UnknownVariable == <<"unknown", "-", "variable">>
MissingFile == <<"missing", "-", "file">>
MissingMessage == <<"missing", "-", "message">>
MissingAttribute == <<"missing", "-", "attribute">>
MissingRequiredVariable == <<"missing", "-", "required", "-", "variable">>
AnnotationMissing == <<"annotation", "-", "missing">>
AnnotationTypeMismatch == <<"annotation", "-", "type", "-", "mismatch">>

\* The keys of WARN_STRINGS.
WarnCodes ==
    {DoNotTranslate, Identical, Duplicate, MismatchIdentical, MismatchFileBundle,
     UnknownFile, UnknownMessage, UnknownAttribute, UnknownVariable, MissingFile,
     MissingMessage, MissingAttribute, MissingRequiredVariable, AnnotationMissing,
     AnnotationTypeMismatch}

WARN_ADD_LOWER == {Identical, MismatchIdentical}

\* getWarningCategory with the special case left out.
getWarningCategoryNoSpecial(code) ==
    LET dash == IndexOf(code, "-")
    IN  IF dash = -1 THEN code ELSE Slice(code, 0, dash)

getWarningCategory(code) ==
    IF code = DoNotTranslate THEN code
    ELSE LET dash == IndexOf(code, "-")
         IN  IF dash = -1 THEN code ELSE Slice(code, 0, dash)

\* FtlAnalyzer.shouldIgnore: engine is this.ignore, ignoreSets the sets passed.
shouldIgnore(engine, code, ignoreSets) ==
    LET sets == Append(ignoreSets, engine)
        cat == getWarningCategory(code)
    IN  \E i \in 1..Len(sets) : code \in sets[i] \/ cat \in sets[i]

\* createWarning: the code, the span and the arguments of the message template
\* (the message text is the template of the code filled with these arguments).
createWarning(code, span, args) ==
    [code |-> code,
     span |-> span,
     args |-> IF code \in WARN_ADD_LOWER THEN Append(args, ToLower(args[1])) ELSE args]

Warning == "Warning"
Error == "Error"

\* --------------------------------------------------- optional values

\* undefined, and a present value v.
None == <<>>

Some(v) == <<v>>

\* Record<string, V> as the sequence of its values in insertion order, each
\* value carrying its key in the field id.
RecHas(rec, id) == \E i \in 1..Len(rec) : rec[i].id = id

RecGet(rec, id) == rec[CHOOSE i \in 1..Len(rec) : rec[i].id = id]

\* rec[v.id] = v
RecSet(rec, v) ==
    IF RecHas(rec, v.id)
    THEN [i \in 1..Len(rec) |-> IF rec[i].id = v.id THEN v ELSE rec[i]]
    ELSE Append(rec, v)

\* ---------------------------------------------------- Object.prototype

\* The records above are plain objects made with `{}`: rec[name] is not
\* undefined for a name that Object.prototype has, whether or not the record
\* has an entry of that name.  For "__proto__" it is Object.prototype itself,
\* for every other name one of the built-in functions.
ProtoKey == <<"__proto__">>

ObjectPrototypeKeys ==
    {ProtoKey, <<"constructor">>, <<"hasOwnProperty">>, <<"isPrototypeOf">>,
     <<"propertyIsEnumerable">>, <<"toLocaleString">>, <<"toString">>, <<"valueOf">>,
     <<"__defineGetter__">>, <<"__defineSetter__">>, <<"__lookupGetter__">>,
     <<"__lookupSetter__">>}

\* Whether rec[id] is an object: an entry of the record or a built-in.
Truthy(rec, id) == RecHas(rec, id) \/ id \in ObjectPrototypeKeys

\* Whether rec[id] is a built-in object.
Inherited(rec, id) == ~RecHas(rec, id) /\ id \in ObjectPrototypeKeys

\* The properties the program has set on the built-in objects, by the name a
\* record answers to them with.
VARIABLE builtins

NoProps == [expectIdentical |-> FALSE, translate |-> "undefined"]

\* x.expectIdentical of an entry or an attribute: its own property, or the one
\* Object.prototype has.
ExpectsIdentical(x) == x.expectIdentical \/ builtins[ProtoKey].expectIdentical

\* The properties read from a built-in object: its own, or those of
\* Object.prototype, which every one of them inherits from.
BuiltinProps(key) ==
    [expectIdentical |-> builtins[key].expectIdentical \/ builtins[ProtoKey].expectIdentical,
     translate |-> IF builtins[key].translate # "undefined" THEN builtins[key].translate
                   ELSE builtins[ProtoKey].translate]

\* object[prop] = value for each of the writes, in order.
RECURSIVE Written(_, _)
Written(objects, writes) ==
    IF writes = <<>> THEN objects
    ELSE Written([objects EXCEPT ![Head(writes).key] =
                    IF Head(writes).prop = "expectIdentical"
                    THEN [@ EXCEPT !.expectIdentical = Head(writes).value]
                    ELSE [@ EXCEPT !.translate = Head(writes).value]],
                 Tail(writes))

\* A TypeError thrown while the diagnostics of a comparison are added: it ends
\* the sequence of the diagnostics added.
TypeError(uri) ==
    <<[uri |-> uri, severity |-> "TypeError", code |-> <<>>,
       span |-> [start |-> 0, end |-> 0], args |-> <<>>]>>

Throws(emits) == \E i \in 1..Len(emits) : emits[i].severity = "TypeError"

\* The diagnostics added before the first TypeError, all of them if there is none.
BeforeThrow(emits) ==
    IF Throws(emits)
    THEN SubSeq(emits, 1, (CHOOSE i \in 1..Len(emits) :
                            /\ emits[i].severity = "TypeError"
                            /\ \A j \in 1..(i - 1) : emits[j].severity # "TypeError") - 1)
    ELSE emits

\* ------------------------------------------------------------ patterns

\* A node of the parser's pattern tree: its type, its name (the identifier of a
\* variable or function reference, the text of a text element, the key of a
\* variant) and its children (the elements of a pattern, the expression of a
\* placeable, the positional arguments of a function reference, the selector
\* followed by the variants of a select expression, the value of a variant).
Node(type, name, kids) == [type |-> type, name |-> name, kids |-> kids]

\* No pattern: the value of a message that has attributes only.
NoPattern == Node("none", <<>>, <<>>)

HasPattern(p) == p.type # "none"

\* BaseNode.equals of the parser library: same type, same fields, children
\* compared in order; spans are not compared.
RECURSIVE NodeEquals(_, _)
NodeEquals(a, b) ==
    /\ a.type = b.type
    /\ a.name = b.name
    /\ Len(a.kids) = Len(b.kids)
    /\ \A i \in 1..Len(a.kids) : NodeEquals(a.kids[i], b.kids[i])

\* A patternsEqual for which an absent pattern equals nothing.
patternsEqualPresentOnly(pattern, other) ==
    HasPattern(pattern) /\ HasPattern(other) /\ NodeEquals(pattern, other)

\* patternsEqual
patternsEqual(pattern, other) ==
    IF ~HasPattern(pattern) \/ ~HasPattern(other)
    THEN pattern = other
    ELSE NodeEquals(pattern, other)

\* The loop of collectVariables: pop the last node of the stack; a variable
\* reference is recorded, a placeable pushes its expression, a function
\* reference its positional arguments, a select expression its selector and its
\* variants; every other node type is dropped.
\* vars.add(name) on a Set, kept as the sequence of its elements in insertion order.
SetAdd(vars, name) == IF name \in RangeOf(vars) THEN vars ELSE Append(vars, name)

RECURSIVE collectLoop(_, _)
collectLoop(stack, vars) ==
    IF stack = <<>> THEN vars
    ELSE LET el == stack[Len(stack)]
             rest == SubSeq(stack, 1, Len(stack) - 1)
         IN  CASE el.type = "VariableReference" -> collectLoop(rest, SetAdd(vars, el.name))
               [] el.type = "Placeable" -> collectLoop(rest \o el.kids, vars)
               [] el.type = "FunctionReference" -> collectLoop(rest \o el.kids, vars)
               [] el.type = "SelectExpression" -> collectLoop(rest \o el.kids, vars)
               [] OTHER -> collectLoop(rest, vars)

\* collectVariables: the Set of identifiers, in insertion order.
collectVariables(pattern) ==
    IF ~HasPattern(pattern) THEN <<>> ELSE collectLoop(pattern.kids, <<>>)

\* --------------------------------------------------------- annotations

AtDiagnostic == <<"@", "diagnostic">>
AtParam == <<"@", "param">>
AtParamAttribute == <<"@", "param", "-", "attribute">>
AtExpectIdentical == <<"@", "expect", "-", "identical">>
AtTranslate == <<"@", "translate">>
AtDoNotTranslate == <<"@", "do", "-", "not", "-", "translate">>
AtTranslateOptional == <<"@", "translate", "-", "optional">>
AtGlobal == <<"@", "global">>
AtBundle == <<"@", "bundle">>

\* One line of a comment as readAnnots reads it.
readAnnotLine(match) ==
    LET space == IndexOf(match, " ")
    IN  [name |-> IF space # -1 THEN Slice(match, 0, space) ELSE TrimEnd(match),
         value |-> IF space # -1 THEN Trim(SliceFrom(match, space + 1)) ELSE <<>>]

IsAnnotLine(match) == match # <<>> /\ match[1] = "@"

RECURSIVE SelectLines(_, _)
SelectLines(ls, annot) ==
    IF ls = <<>> THEN <<>>
    ELSE (IF IsAnnotLine(Head(ls)) = annot THEN <<Head(ls)>> ELSE <<>>)
         \o SelectLines(Tail(ls), annot)

\* readAnnots: the comment without its annotation lines, and the annotations.
readAnnots(content) ==
    LET matches == Lines(content)
        lines == SelectLines(matches, FALSE)
        annots == SelectLines(matches, TRUE)
    IN  [comment |-> IF Len(lines) > 0 THEN Trim(Join(lines, <<"\n">>)) ELSE <<>>,
         annotations |-> [i \in 1..Len(annots) |-> readAnnotLine(annots[i])]]

IsIdentTok(t) == IsWord(t) \/ t = "-"

IsTypeTok(t) == t # "#" /\ t # " "

\* The character classes of the parameter expressions: [\w_-], \s and [^# ].
InClass(t, cls) ==
    CASE cls = "ident" -> IsIdentTok(t)
      [] cls = "space" -> IsSpace(t)
      [] cls = "type" -> IsTypeTok(t)

\* The longest prefix of s made of tokens of the class (a greedy repetition).
RECURSIVE Run(_, _)
Run(s, cls) ==
    IF s # <<>> /\ InClass(Head(s), cls) THEN <<Head(s)>> \o Run(Tail(s), cls) ELSE <<>>

\* The tail shared by REGEXP_PARAM and REGEXP_PARAM_ATTR, matched on s:
\*   \$([A-Za-z][\w_-]*)(\??)(?:\s+([^# ]+))?(.*)$
\* type is None when the optional group takes no part in the match.
matchParamTail(s, attr) ==
    IF ~(Len(s) >= 2 /\ s[1] = "$" /\ IsWord(s[2])) THEN [matched |-> FALSE]
    ELSE LET id == Run(Tail(s), "ident")
             afterId == SliceFrom(s, 1 + Len(id))
             opt == afterId # <<>> /\ afterId[1] = "?"
             afterOpt == IF opt THEN Tail(afterId) ELSE afterId
             spaces == Run(afterOpt, "space")
             type == Run(SliceFrom(afterOpt, Len(spaces)), "type")
             group == spaces # <<>> /\ type # <<>>
         IN  [matched |-> TRUE,
              attr |-> attr,
              id |-> id,
              opt |-> opt,
              type |-> IF group THEN Some(type) ELSE None,
              rest |-> IF group THEN SliceFrom(afterOpt, Len(spaces) + Len(type))
                       ELSE afterOpt]

\* value.match(REGEXP_PARAM)
matchParam(value) == matchParamTail(value, None)

\* value.match(REGEXP_PARAM_ATTR):  ^([A-Za-z][\w_-]*)\s+ and then the tail.
matchParamAttr(value) ==
    IF ~(value # <<>> /\ IsWord(value[1])) THEN [matched |-> FALSE]
    ELSE LET attr == Run(value, "ident")
             afterAttr == SliceFrom(value, Len(attr))
             spaces == Run(afterAttr, "space")
         IN  IF spaces = <<>> THEN [matched |-> FALSE]
             ELSE matchParamTail(SliceFrom(afterAttr, Len(spaces)), Some(attr))

\* ------------------------------------------------ annotation handlers

Required == "Required"
Optional == "Optional"
Disallowed == "Disallowed"

\* The codes listed by a @diagnostic annotation: split at commas, trimmed,
\* empty items dropped.
diagnosticList(value) ==
    LET pieces == Split(value, ",")
    IN  {Trim(pieces[i]) : i \in 1..Len(pieces)} \ {<<>>}

\* The text of a @diagnostic annotation after its first word, without what
\* follows a "#".
diagnosticCodes(rest) ==
    LET sliceEnd == IndexOf(rest, "#")
    IN  Trim(IF sliceEnd # -1 THEN Slice(rest, 0, sliceEnd) ELSE rest)

\* The end of handleDiagnosticAnnotation: an empty list sets ignoreAll, and
\* enable adds the listed codes to the ignore set, disable deletes them.
applyDiagnostic(target, enable, value) ==
    [target EXCEPT
        !.ignoreAll = IF value = <<>> THEN ~enable ELSE @,
        !.ignore = IF enable THEN @ \cup diagnosticList(value)
                   ELSE @ \ diagnosticList(value)]

\* handleDiagnosticAnnotation: target is an entry or the annotation state.
handleDiagnosticAnnotation(target, annot) ==
    LET space == IndexOf(annot.value, " ")
        firstWord == IF space # -1 THEN Slice(annot.value, 0, space) ELSE annot.value
    IN  IF firstWord # <<"enable">> /\ firstWord # <<"disable">> THEN target
        ELSE applyDiagnostic(target, firstWord = <<"enable">>,
                diagnosticCodes(Trim(SliceFrom(annot.value, space + 1))))

\* A ParamInfo; type and comment are <<>> when undefined (neither is ever '').
ParamInfo(id, required, type, comment) ==
    [id |-> id, required |-> required, type |-> type, comment |-> comment]

\* The end of handleParamAnnotation: the parameter is declared on the entry or
\* on the attribute the annotation names, if the entry has it.
declareParam(info, attrName, param) ==
    IF attrName = None THEN [info EXCEPT !.params = RecSet(@, param)]
    ELSE IF RecHas(info.attributes, attrName[1])
    THEN [info EXCEPT !.attributes =
            RecSet(@, [RecGet(@, attrName[1]) EXCEPT !.params = RecSet(@, param)])]
    ELSE info

\* handleParamAnnotation after the match: the entry, and whether the handler
\* threw (matches[shift + 2] is undefined when the expression matched without
\* its optional type group, and .trim() of undefined is a TypeError; so is
\* attr.params[id] = param when attr is a built-in object, which has no params).
applyParamMatch(info, m) ==
    IF ~m.matched THEN [info |-> info, thrown |-> FALSE]
    ELSE IF m.type = None THEN [info |-> info, thrown |-> TRUE]
    ELSE IF m.attr # None /\ Inherited(info.attributes, m.attr[1])
    THEN [info |-> info, thrown |-> TRUE]
    ELSE [info |-> declareParam(info, m.attr,
                     ParamInfo(m.id, ~m.opt, Trim(m.type[1]), Trim(m.rest))),
          thrown |-> FALSE]

\* handleParamAnnotation
handleParamAnnotation(info, annot) ==
    applyParamMatch(info,
        IF annot.name = AtParamAttribute THEN matchParamAttr(annot.value)
        ELSE matchParam(annot.value))

\* info[prop] = value for the two properties a targeted annotation sets.
SetProp(rec, prop, value) ==
    IF prop = "expectIdentical" THEN [rec EXCEPT !.expectIdentical = value]
    ELSE [rec EXCEPT !.translate = value]

\* The end of handleTargetedAnnotation: the entry, every attribute, or the one
\* attribute named.
applyTargeted(info, prop, value, annotValue) ==
    IF annotValue = <<>> THEN SetProp(info, prop, value)
    ELSE IF annotValue = <<"*">>
    THEN [info EXCEPT !.attributes = [i \in 1..Len(@) |-> SetProp(@[i], prop, value)]]
    ELSE IF RecHas(info.attributes, annotValue)
    THEN [info EXCEPT !.attributes =
            RecSet(@, SetProp(RecGet(@, annotValue), prop, value))]
    ELSE info

\* The property a targeted annotation sets, and the value it sets it to.
targetedProp(annot) ==
    IF annot.name = AtExpectIdentical THEN "expectIdentical" ELSE "translate"

targetedValue(annot) ==
    CASE annot.name = AtExpectIdentical -> TRUE
      [] annot.name = AtTranslate -> Required
      [] annot.name = AtDoNotTranslate -> Disallowed
      [] annot.name = AtTranslateOptional -> Optional

\* handleTargetedAnnotation: what it does to the entry.
handleTargetedAnnotation(info, annot) ==
    applyTargeted(info, targetedProp(annot), targetedValue(annot),
                  diagnosticCodes(annot.value))

\* handleTargetedAnnotation: what it does outside the entry.  When the value
\* names no attribute of the entry but a property of Object.prototype,
\* info.attributes[annotValue] is a built-in object and attr[prop] = value
\* sets the property on it.
targetedWrites(info, annot) ==
    IF diagnosticCodes(annot.value) \notin {<<>>, <<"*">>}
       /\ Inherited(info.attributes, diagnosticCodes(annot.value))
    THEN <<[key |-> diagnosticCodes(annot.value), prop |-> targetedProp(annot),
            value |-> targetedValue(annot)]>>
    ELSE <<>>

\* The switch of handleEntryAnnotations for one annotation: the entry, whether
\* the handler threw, and the properties it set on built-in objects.
handleEntryAnnotation(info, annot) ==
    CASE annot.name = AtDiagnostic ->
            [info |-> handleDiagnosticAnnotation(info, annot), thrown |-> FALSE,
             writes |-> <<>>]
      [] annot.name \in {AtParam, AtParamAttribute} ->
            [info |-> handleParamAnnotation(info, annot).info,
             thrown |-> handleParamAnnotation(info, annot).thrown,
             writes |-> <<>>]
      [] annot.name \in {AtExpectIdentical, AtTranslate, AtDoNotTranslate,
                         AtTranslateOptional} ->
            [info |-> handleTargetedAnnotation(info, annot), thrown |-> FALSE,
             writes |-> targetedWrites(info, annot)]
      [] OTHER -> [info |-> info, thrown |-> FALSE, writes |-> <<>>]

\* handleEntryAnnotations: the annotations in order; acc is the entry so far,
\* whether a handler threw, which ends the loop, and the writes so far.
RECURSIVE handleEntryAnnotations(_, _)
handleEntryAnnotations(acc, annotations) ==
    IF annotations = <<>> \/ acc.thrown THEN acc
    ELSE handleEntryAnnotations(
            [handleEntryAnnotation(acc.info, Head(annotations))
                EXCEPT !.writes = acc.writes \o @],
            Tail(annotations))

\* The switch of handleResourceAnnotations for one annotation.
handleResourceAnnotation(state, annot) ==
    CASE annot.name = AtDiagnostic -> handleDiagnosticAnnotation(state, annot)
      [] annot.name = AtGlobal -> [state EXCEPT !.global = TRUE]
      [] annot.name = AtBundle ->
            [state EXCEPT !.bundle = IF annot.value # <<>> THEN Some(annot.value) ELSE None]
      [] annot.name = AtTranslate -> [state EXCEPT !.translate = Required]
      [] annot.name = AtDoNotTranslate -> [state EXCEPT !.translate = Disallowed]
      [] annot.name = AtTranslateOptional -> [state EXCEPT !.translate = Optional]
      [] OTHER -> state

\* handleResourceAnnotations
RECURSIVE handleResourceAnnotations(_, _)
handleResourceAnnotations(state, annotations) ==
    IF annotations = <<>> THEN state
    ELSE handleResourceAnnotations(handleResourceAnnotation(state, Head(annotations)),
                                   Tail(annotations))

\* ---------------------------------------------------- diagnostic store

\* What addDiagnostic is called with: the file, the severity and the report.
Emit(uri, severity, report) ==
    [uri |-> uri, severity |-> severity, code |-> report.code,
     span |-> report.span, args |-> report.args]

\* addEntryWarning: the diagnostics it adds (none or one).  Only a message or a
\* term has the field isTerm; an attribute has no ignore set of its own.
addEntryWarning(engine, uri, entry, code, args) ==
    IF "isTerm" \in DOMAIN entry
       /\ (entry.ignoreAll \/ shouldIgnore(engine, code, <<entry.ignore>>))
    THEN <<>>
    ELSE <<Emit(uri, Warning, createWarning(code, entry.idSpan, args))>>

\* addWarning
addWarning(uri, code, span, args) ==
    <<Emit(uri, Warning, createWarning(code, span, args))>>

\* addError: a Junk annotation of the parser is reported as it is.
addError(uri, annot) ==
    <<Emit(uri, Error, [code |-> annot.code, span |-> annot.span, args |-> annot.args])>>

\* The map of diagnostics: the pairs (uri, list) in insertion order.
MapHas(map, uri) == \E i \in 1..Len(map) : map[i].uri = uri

MapGet(map, uri) == map[CHOOSE i \in 1..Len(map) : map[i].uri = uri].list

\* A delete that removes nothing.
MapDeleteNothing(map, uri) == map

\* this.diagnostics.delete(uri)
MapDelete(map, uri) ==
    LET keep == {i \in 1..Len(map) : map[i].uri # uri}
        nth(k) == CHOOSE i \in keep : Cardinality({j \in keep : j < i}) = k - 1
    IN  [k \in 1..Cardinality(keep) |-> map[nth(k)]]

\* The text of a file is known by its length; every entry of a resource is a
\* line of LineLen characters, the last of which is the line feed.
LineLen == 16

\* text[i] === '\n' for a text of the given length.
IsLineFeed(length, i) == i < length /\ i % LineLen = LineLen - 1

\* The loop of getLineAndCol from i on, line and col being what it has so far.
RECURSIVE lineAndColFrom(_, _, _, _, _)
lineAndColFrom(length, idx, i, line, col) ==
    IF ~(i < idx) THEN [line |-> line, column |-> col]
    ELSE IF IsLineFeed(length, i) THEN lineAndColFrom(length, idx, i + 1, line + 1, 1)
    ELSE lineAndColFrom(length, idx, i + 1, line, col + 1)

\* getLineAndCol
getLineAndCol(length, idx) == lineAndColFrom(length, idx, 0, 1, 1)

\* spanToRange: length is content.length.
spanToRange(span, length) ==
    LET start == IF span.start < 0 THEN length + span.start ELSE span.start
        end == IF span.end < 0 THEN length + span.end ELSE span.end
    IN  [start |-> [line |-> getLineAndCol(length, start).line,
                    column |-> getLineAndCol(length, start).column,
                    index |-> start],
         end |-> [line |-> getLineAndCol(length, end).line,
                  column |-> getLineAndCol(length, end).column,
                  index |-> end]]

\* file.content.length of every file.
Contents(fs) == [u \in DOMAIN fs |-> fs[u].content]

\* addDiagnostic: getOrDefault(this.diagnostics, uri, []).push(diagnostic); stamp
\* is the number of reads of the file begun so far (a history value of the
\* model) and contents the length of the content of every file.  The span and
\* the arguments of the message are kept beside the range.
addDiagnostic(map, e, stamp, contents) ==
    LET d == [severity |-> e.severity, code |-> e.code, uri |-> e.uri,
              span |-> e.span, args |-> e.args, stamp |-> stamp[e.uri],
              range |-> spanToRange(e.span, contents[e.uri])]
    IN  IF MapHas(map, e.uri)
        THEN [i \in 1..Len(map) |->
                IF map[i].uri = e.uri THEN [map[i] EXCEPT !.list = Append(@, d)]
                ELSE map[i]]
        ELSE Append(map, [uri |-> e.uri, list |-> <<d>>])

RECURSIVE addAll(_, _, _, _)
addAll(map, emits, stamp, contents) ==
    IF emits = <<>> THEN map
    ELSE addAll(addDiagnostic(map, Head(emits), stamp, contents), Tail(emits), stamp,
                contents)

\* getDiagnosticsForUri
getDiagnosticsForUri(map, uri) == IF MapHas(map, uri) THEN MapGet(map, uri) ELSE <<>>

\* getDiagnostics
RECURSIVE getDiagnostics(_)
getDiagnostics(map) ==
    IF map = <<>> THEN <<>> ELSE Head(map).list \o getDiagnostics(Tail(map))

\* ------------------------------------------------------- normalisation

\* The AttributeInfo convertMessage makes of an attribute.
attributeInfo(attr, name, translate) ==
    [id |-> attr.id,
     name |-> name \o <<".">> \o attr.id,
     idSpan |-> attr.span,
     translate |-> translate,
     value |-> attr.value,
     params |-> <<>>,
     variables |-> collectVariables(attr.value),
     expectIdentical |-> FALSE]

\* One step of the reduce over the attributes: a duplicate warning if the id is
\* in the record already, then rec[id] = attrInfo.
addAttribute(engine, uri, acc, attrInfo) ==
    [rec |-> RecSet(acc.rec, attrInfo),
     emits |-> acc.emits \o
        (IF Truthy(acc.rec, attrInfo.id)
         THEN addEntryWarning(engine, uri, attrInfo, Duplicate,
                              <<<<"attribute">>, attrInfo.name>>)
         ELSE <<>>)]

\* The attributes of an entry as convertMessage's reduce builds them: the
\* record of AttributeInfo and the duplicate warnings added on the way.
RECURSIVE convertAttributes(_, _, _, _, _, _)
convertAttributes(engine, uri, attrs, name, translate, acc) ==
    IF attrs = <<>> THEN acc
    ELSE convertAttributes(engine, uri, Tail(attrs), name, translate,
            addAttribute(engine, uri, acc, attributeInfo(Head(attrs), name, translate)))

\* An entryInfo that gives every entry the policy Required.
entryInfoRequired(entry, state, isTerm, name, attributes) ==
    [isTerm |-> isTerm,
     id |-> entry.id,
     name |-> name,
     idSpan |-> [start |-> IF isTerm THEN entry.span.start - 1 ELSE entry.span.start,
                 end |-> entry.span.end],
     ignore |-> state.ignore,
     ignoreAll |-> FALSE,
     translate |-> Required,
     value |-> entry.value,
     variables |-> collectVariables(entry.value),
     params |-> <<>>,
     attributes |-> attributes,
     expectIdentical |-> FALSE,
     comment |-> <<>>]

\* The MessageInfo or TermInfo before its comment is read.
entryInfo(entry, state, isTerm, name, attributes) ==
    [isTerm |-> isTerm,
     id |-> entry.id,
     name |-> name,
     idSpan |-> [start |-> IF isTerm THEN entry.span.start - 1 ELSE entry.span.start,
                 end |-> entry.span.end],
     ignore |-> state.ignore,
     ignoreAll |-> FALSE,
     translate |-> state.translate,
     value |-> entry.value,
     variables |-> collectVariables(entry.value),
     params |-> <<>>,
     attributes |-> attributes,
     expectIdentical |-> FALSE,
     comment |-> <<>>]

\* What convertMessage gives back: the entry, the diagnostics added on the way
\* and whether an annotation handler threw.
converted(handled, emits) ==
    [info |-> handled.info, emits |-> emits, thrown |-> handled.thrown,
     writes |-> handled.writes]

\* The end of convertMessage: the annotations of the comment are handled and the
\* rest of the comment is kept.
annotateEntry(info, extracted, emits) ==
    converted(handleEntryAnnotations([info |-> info, thrown |-> FALSE, writes |-> <<>>],
                                     extracted.annotations),
              emits)

\* convertMessage once the attributes are reduced.
convertWithAttributes(entry, state, isTerm, name, attrs) ==
    annotateEntry([entryInfo(entry, state, isTerm, name, attrs.rec)
                      EXCEPT !.comment = readAnnots(entry.comment).comment],
                  readAnnots(entry.comment), attrs.emits)

\* convertMessage: the MessageInfo or TermInfo, the diagnostics added, and
\* whether an annotation handler threw.
convertMessage(engine, uri, entry, state, isTerm) ==
    convertWithAttributes(entry, state, isTerm,
        IF isTerm THEN <<"-">> \o entry.id ELSE entry.id,
        convertAttributes(engine, uri, entry.attributes,
            IF isTerm THEN <<"-">> \o entry.id ELSE entry.id,
            state.translate, [rec |-> <<>>, emits |-> <<>>]))

\* The AnnotationState read starts with.
newAnnotationState ==
    [ignore |-> {}, ignoreAll |-> FALSE, translate |-> Required,
     global |-> FALSE, bundle |-> None]

\* A pushEntry for an entry that shares its ignore set with the annotation
\* state instead of copying it: what the entry's directives did to the set is
\* seen by the state.
pushEntryShared(acc, c) ==
    IF c.thrown
    THEN [acc EXCEPT !.emits = @ \o c.emits, !.writes = @ \o c.writes, !.thrown = TRUE]
    ELSE IF c.info.isTerm
    THEN [acc EXCEPT !.emits = @ \o c.emits, !.writes = @ \o c.writes,
                     !.file.terms = Append(@, c.info),
                     !.state.ignore = c.info.ignore]
    ELSE [acc EXCEPT !.emits = @ \o c.emits, !.writes = @ \o c.writes,
                     !.file.messages = Append(@, c.info),
                     !.state.ignore = c.info.ignore]

\* file.terms.push or file.messages.push of a converted entry; an entry whose
\* conversion threw is not pushed and ends the read.
pushEntry(acc, c) ==
    IF c.thrown
    THEN [acc EXCEPT !.emits = @ \o c.emits, !.writes = @ \o c.writes, !.thrown = TRUE]
    ELSE IF c.info.isTerm
    THEN [acc EXCEPT !.emits = @ \o c.emits, !.writes = @ \o c.writes,
                     !.file.terms = Append(@, c.info)]
    ELSE [acc EXCEPT !.emits = @ \o c.emits, !.writes = @ \o c.writes,
                     !.file.messages = Append(@, c.info)]

\* addError for every annotation of a Junk entry.
RECURSIVE junkErrors(_, _)
junkErrors(uri, annotations) ==
    IF annotations = <<>> THEN <<>>
    ELSE addError(uri, Head(annotations)) \o junkErrors(uri, Tail(annotations))

\* The switch of read for one entry of the resource.
readEntry(engine, acc, entry) ==
    CASE entry.type = "Term" ->
            pushEntry(acc, convertMessage(engine, acc.file.uri, entry, acc.state, TRUE))
      [] entry.type = "Message" ->
            pushEntry(acc, convertMessage(engine, acc.file.uri, entry, acc.state, FALSE))
      [] entry.type = "ResourceComment" ->
            [acc EXCEPT !.state =
                handleResourceAnnotations(@, readAnnots(entry.comment).annotations)]
      [] entry.type = "Junk" ->
            [acc EXCEPT !.emits = @ \o junkErrors(acc.file.uri, entry.annotations)]
      [] OTHER -> acc

\* The loop of read over the entries; it ends when a conversion throws.
RECURSIVE readEntries(_, _, _)
readEntries(engine, entries, acc) ==
    IF entries = <<>> \/ acc.thrown THEN acc
    ELSE readEntries(engine, Tail(entries), readEntry(engine, acc, Head(entries)))

\* The bundle of the file after the loop of read: it is assigned when the
\* resource is global or names a bundle, and left as it is otherwise.
bundleAfter(bundle, state) ==
    IF state.global THEN Some(<<>>)
    ELSE IF state.bundle # None THEN state.bundle
    ELSE bundle

\* The codes read adds to file.ignore after the loop.
fileIgnores(state) ==
    (IF state.ignoreAll \/ UnknownFile \in state.ignore \/ <<"unknown">> \in state.ignore
     THEN {UnknownFile} ELSE {})
    \cup
    (IF state.ignoreAll \/ state.translate # Required
        \/ MissingFile \in state.ignore \/ <<"missing">> \in state.ignore
     THEN {MissingFile} ELSE {})

\* The end of read: what is left of it after the loop over the entries.
finishRead(acc) ==
    IF acc.thrown
    THEN [file |-> acc.file, emits |-> acc.emits, thrown |-> TRUE, writes |-> acc.writes]
    ELSE [file |-> [acc.file EXCEPT !.bundle = bundleAfter(@, acc.state),
                                    !.ignore = @ \cup fileIgnores(acc.state)],
          emits |-> acc.emits, thrown |-> FALSE, writes |-> acc.writes]

\* read after this.diagnostics.delete: the file record, the diagnostics added,
\* whether the read threw, and the properties set on built-in objects.  A file
\* that cannot be read is left as it is; otherwise parse stores the content and
\* the entries are pushed onto the messages and terms the record has.
read(engine, file, content) ==
    IF ~content.readable
    THEN [file |-> file, emits |-> <<>>, thrown |-> FALSE, writes |-> <<>>]
    ELSE finishRead(readEntries(engine, content.body,
            [file |-> [file EXCEPT !.content = content.len],
             state |-> newAnnotationState, emits |-> <<>>, thrown |-> FALSE,
             writes |-> <<>>]))

\* createFileRecord: the uri of a file is its path below the base directory, and
\* its name is path.basename(relative, '.ftl').
createFileRecord(uri) ==
    [uri |-> uri,
     name |-> IF Len(uri[Len(uri)]) > 2 /\ EndsWith(uri[Len(uri)], <<".", "ftl">>)
              THEN Slice(uri[Len(uri)], 0, Len(uri[Len(uri)]) - 2)
              ELSE uri[Len(uri)],
     content |-> 0,
     terms |-> <<>>,
     messages |-> <<>>,
     bundle |-> None,
     ignore |-> {}]

\* --------------------------------------------------------- comparison

RECURSIVE Concat(_)
Concat(ss) == IF ss = <<>> THEN <<>> ELSE Head(ss) \o Concat(Tail(ss))

RECURSIVE RecSetAll(_, _)
RecSetAll(rec, vals) ==
    IF vals = <<>> THEN rec ELSE RecSetAll(RecSet(rec, Head(vals)), Tail(vals))

\* `@param $id` or `@param-attribute attr $id`, the first argument of the
\* annotation warnings.
paramAnnotText(entry, isAttr, id) ==
    IF isAttr THEN AtParamAttribute \o <<" ">> \o entry.id \o <<" ", "$">> \o id
    ELSE AtParam \o <<" ", "$">> \o id

\* checkParams: srcEntry is None or Some(entry of the source locale).
\* params is a plain object: params[name] is a built-in object, whose type is
\* undefined, for a name of Object.prototype that no parameter has.
checkParams(engine, uri, entry, srcEntry, isSrc, isAttr) ==
    LET type == IF isAttr THEN <<"attribute">> ELSE <<"message">>
        srcParams == IF srcEntry # None THEN srcEntry[1].params ELSE <<>>
        params == RecSetAll(srcParams, entry.params)
        typeMismatch(param) ==
            IF \/ RecHas(srcParams, param.id) /\ RecGet(srcParams, param.id).type # param.type
               \/ Inherited(srcParams, param.id) /\ param.type # <<>>
            THEN addEntryWarning(engine, uri, entry, AnnotationTypeMismatch,
                    <<paramAnnotText(entry, isAttr, param.id), type, entry.name>>)
            ELSE <<>>
        perVariable(variable) ==
            (IF isSrc /\ ~Truthy(params, variable)
             THEN addEntryWarning(engine, uri, entry, AnnotationMissing,
                    <<paramAnnotText(entry, isAttr, variable), type, entry.name>>)
             ELSE <<>>)
            \o
            (IF ~isSrc /\ srcEntry # None
                /\ variable \notin RangeOf(srcEntry[1].variables)
                /\ ~Truthy(params, variable)
             THEN addEntryWarning(engine, uri, entry, UnknownVariable,
                    <<<<"$">> \o variable, type>>)
             ELSE <<>>)
        perParam(param) ==
            IF ~param.required \/ param.id \in RangeOf(entry.variables) THEN <<>>
            ELSE addEntryWarning(engine, uri, entry, MissingRequiredVariable,
                    <<<<"$">> \o param.id, type, entry.name>>)
    IN  Concat([i \in 1..Len(entry.params) |-> typeMismatch(entry.params[i])])
        \o Concat([i \in 1..Len(entry.variables) |-> perVariable(entry.variables[i])])
        \o Concat([i \in 1..Len(params) |-> perParam(params[i])])

\* srcAttributes[id], None when undefined.
attrOf(srcAttributes, id) ==
    IF RecHas(srcAttributes, id) THEN Some(RecGet(srcAttributes, id)) ELSE None

\* checkMessageParams: srcMessage is None or Some(message of the source locale).
\* For an attribute whose name Object.prototype has and the source message has
\* not, srcAttributes[attr.id] is a built-in object: checkParams takes it for
\* the source entry and Object.values(srcEntry.params) throws a TypeError.
checkMessageParams(engine, uri, message, srcMessage, isSrc) ==
    LET srcAttributes == IF srcMessage # None THEN srcMessage[1].attributes ELSE <<>>
    IN  checkParams(engine, uri, message, srcMessage, isSrc, FALSE)
        \o Concat([i \in 1..Len(message.attributes) |->
                IF Inherited(srcAttributes, message.attributes[i].id)
                THEN TypeError(uri)
                ELSE checkParams(engine, uri, message.attributes[i],
                                 attrOf(srcAttributes, message.attributes[i].id),
                                 isSrc, TRUE)])

\* The body of checkSourceGroup's loop for one file.
checkSourceFile(engine, file) ==
    LET seenBefore(list, i) == \E j \in 1..(i - 1) : list[j].id = list[i].id
    IN  Concat([i \in 1..Len(file.messages) |->
            (IF seenBefore(file.messages, i)
             THEN addEntryWarning(engine, file.uri, file.messages[i], Duplicate,
                    <<<<"message">>, file.messages[i].name>>)
             ELSE <<>>)
            \o checkMessageParams(engine, file.uri, file.messages[i], None, TRUE)])
        \o Concat([i \in 1..Len(file.terms) |->
            IF seenBefore(file.terms, i)
            THEN addEntryWarning(engine, file.uri, file.terms[i], Duplicate,
                    <<<<"term">>, file.terms[i].name>>)
            ELSE <<>>])

\* checkSourceGroup: files is the sequence of the group's FileInfo.
checkSourceGroup(engine, files) ==
    Concat([i \in 1..Len(files) |-> checkSourceFile(engine, files[i])])

\* compareAttributes: entry is a message or a term of the locale, srcAttributes
\* the attributes of its counterpart in the source locale.  srcAttributes[id] is
\* the attribute of that name or, for a name of Object.prototype that no
\* attribute has, a built-in object, which has no value.
compareAttributes(engine, uri, entry, srcAttributes) ==
    LET attributes == entry.attributes
        srcOf(attr) ==
            IF RecHas(srcAttributes, attr.id)
            THEN [translate |-> RecGet(srcAttributes, attr.id).translate,
                  value |-> RecGet(srcAttributes, attr.id).value,
                  expectIdentical |-> ExpectsIdentical(RecGet(srcAttributes, attr.id))]
            ELSE [translate |-> BuiltinProps(attr.id).translate,
                  value |-> NoPattern,
                  expectIdentical |-> BuiltinProps(attr.id).expectIdentical]
        termAttr(attr) ==
            IF Truthy(srcAttributes, attr.id) /\ srcOf(attr).translate = Disallowed
            THEN addEntryWarning(engine, uri, attr, DoNotTranslate,
                    <<<<"Attribute">>, attr.name>>)
            ELSE <<>>
        messageAttr(attr) ==
            IF ~Truthy(srcAttributes, attr.id)
            THEN IF ~shouldIgnore(engine, UnknownAttribute, <<entry.ignore>>)
                 THEN addEntryWarning(engine, uri, attr, UnknownAttribute, <<attr.id>>)
                 ELSE <<>>
            ELSE LET srcAttr == srcOf(attr)
                     isEq == patternsEqual(attr.value, srcAttr.value)
                     expectEq == ExpectsIdentical(attr) \/ srcAttr.expectIdentical
                 IN  (IF srcAttr.translate = Disallowed
                         /\ ~shouldIgnore(engine, DoNotTranslate, <<entry.ignore>>)
                      THEN addEntryWarning(engine, uri, attr, DoNotTranslate,
                              <<<<"Attribute">>, attr.name>>)
                      ELSE <<>>)
                     \o
                     (IF isEq # expectEq
                      THEN addEntryWarning(engine, uri, attr,
                              IF isEq THEN Identical ELSE MismatchIdentical,
                              <<<<"Attribute">>, attr.name>>)
                      ELSE <<>>)
        missing(srcAttr) ==
            IF srcAttr.translate = Required /\ ~RecHas(attributes, srcAttr.id)
            THEN addEntryWarning(engine, uri, entry, MissingAttribute,
                    <<entry.name \o <<".">> \o srcAttr.id>>)
            ELSE <<>>
    IN  IF entry.isTerm
        THEN Concat([i \in 1..Len(attributes) |-> termAttr(attributes[i])])
        ELSE Concat([i \in 1..Len(attributes) |-> messageAttr(attributes[i])])
             \o Concat([i \in 1..Len(srcAttributes) |-> missing(srcAttributes[i])])

\* A compareMessages that reports neither code for a message without a value.
compareMessagesValueOnly(engine, uri, message, srcMessage) ==
    LET isEq == patternsEqual(message.value, srcMessage.value)
        expectEq == ExpectsIdentical(message) \/ ExpectsIdentical(srcMessage)
    IN  (IF srcMessage.translate = Disallowed
         THEN addEntryWarning(engine, uri, message, DoNotTranslate,
                 <<<<"Message">>, message.name>>)
         ELSE <<>>)
        \o
        (IF isEq # expectEq /\ HasPattern(message.value)
         THEN addEntryWarning(engine, uri, message,
                 IF isEq THEN Identical ELSE MismatchIdentical,
                 <<<<"Message">>, message.name>>)
         ELSE <<>>)
        \o checkMessageParams(engine, uri, message, Some(srcMessage), FALSE)
        \o compareAttributes(engine, uri, message, srcMessage.attributes)

\* compareMessages
compareMessages(engine, uri, message, srcMessage) ==
    LET isEq == patternsEqual(message.value, srcMessage.value)
        expectEq == ExpectsIdentical(message) \/ ExpectsIdentical(srcMessage)
    IN  (IF srcMessage.translate = Disallowed
         THEN addEntryWarning(engine, uri, message, DoNotTranslate,
                 <<<<"Message">>, message.name>>)
         ELSE <<>>)
        \o
        (IF isEq # expectEq /\ (~isEq \/ HasPattern(message.value))
         THEN addEntryWarning(engine, uri, message,
                 IF isEq THEN Identical ELSE MismatchIdentical,
                 <<<<"Message">>, message.name>>)
         ELSE <<>>)
        \o checkMessageParams(engine, uri, message, Some(srcMessage), FALSE)
        \o compareAttributes(engine, uri, message, srcMessage.attributes)

\* A path as the string path.join makes of its parts.
PathStr(path) == Join(path, <<"/">>)

\* The absolute path of the base directory discovery was run on.
BasePath == <<<<>>, <<"base">>>>

\* getDisplayPath
getDisplayPath(useRelativePaths, file) ==
    IF useRelativePaths THEN file.uri ELSE BasePath \o file.uri

\* addMissingFileWarning
addMissingFileWarning(useRelativePaths, srcFile, locale) ==
    IF MissingFile \in srcFile.ignore THEN <<>>
    ELSE LET display == getDisplayPath(useRelativePaths, srcFile)
         IN  addWarning(srcFile.uri, MissingFile, [start |-> 0, end |-> 0],
                <<PathStr(SubSeq(display, 1, Len(display) - 2)
                          \o <<locale, srcFile.name \o <<".", "ftl">>>>)>>)

\* addMissingMessageWarning that does not look at the translation policy.
addMissingMessageWarningAlways(file, message) ==
    IF MissingMessage \in file.ignore THEN <<>>
    ELSE addWarning(file.uri, MissingMessage, [start |-> -1, end |-> -1], <<message.name>>)

\* addMissingMessageWarning
addMissingMessageWarning(file, message) ==
    IF MissingMessage \in file.ignore THEN <<>>
    ELSE IF message.translate # Required THEN <<>>
    ELSE addWarning(file.uri, MissingMessage, [start |-> -1, end |-> -1], <<message.name>>)

\* addUnknownFileWarning
addUnknownFileWarning(useRelativePaths, file) ==
    IF UnknownFile \in file.ignore THEN <<>>
    ELSE addWarning(file.uri, UnknownFile, [start |-> 0, end |-> 0],
            <<PathStr(getDisplayPath(useRelativePaths, file))>>)

\* getBundleDisplay
getBundleDisplay(bundle) ==
    IF bundle = Some(<<>>) THEN <<"global">>
    ELSE IF bundle = None THEN <<"default">>
    ELSE <<"\"">> \o bundle[1] \o <<"\"">>

\* The last element of list with the given id: what a reduce that assigns
\* rec[x.id] = x for every x leaves under that key.
LastWithId(list, id) ==
    list[CHOOSE i \in 1..Len(list) :
            list[i].id = id /\ \A j \in (i + 1)..Len(list) : list[j].id # id]

HasId(list, id) == \E i \in 1..Len(list) : list[i].id = id

\* A compareFiles that takes the global bundle and no bundle for the same, and
\* compares nothing else.
compareFilesLooseBundle(engine, useRelativePaths, file, srcFile) ==
    IF file.bundle # srcFile.bundle
       /\ {file.bundle, srcFile.bundle} # {None, Some(<<>>)}
    THEN addWarning(file.uri, MismatchFileBundle, [start |-> 0, end |-> 0],
            <<PathStr(getDisplayPath(useRelativePaths, file)),
              getBundleDisplay(file.bundle), getBundleDisplay(srcFile.bundle)>>)
    ELSE <<>>

\* compareFiles for a file of the locale and the file of the same name of the
\* source locale.
compareFiles(engine, useRelativePaths, file, srcFile) ==
    IF file.bundle # srcFile.bundle
    THEN addWarning(file.uri, MismatchFileBundle, [start |-> 0, end |-> 0],
            <<PathStr(getDisplayPath(useRelativePaths, file)),
              getBundleDisplay(file.bundle), getBundleDisplay(srcFile.bundle)>>)
    ELSE
        \* terms: the record the reduce over file.terms threads is never
        \* assigned, so rec[term.id] is undefined for every term
        Concat([i \in 1..Len(file.terms) |->
            IF HasId(srcFile.terms, file.terms[i].id)
            THEN compareAttributes(engine, file.uri, file.terms[i],
                    LastWithId(srcFile.terms, file.terms[i].id).attributes)
            ELSE <<>>])
        \* messages: duplicates while messageById is built
        \o Concat([i \in 1..Len(file.messages) |->
            IF \E j \in 1..(i - 1) : file.messages[j].id = file.messages[i].id
            THEN addEntryWarning(engine, file.uri, file.messages[i], Duplicate,
                    <<<<"message">>, file.messages[i].name>>)
            ELSE <<>>])
        \o Concat([i \in 1..Len(srcFile.messages) |->
            LET srcMessage == srcFile.messages[i]
            IN  IF ~HasId(file.messages, srcMessage.id)
                THEN addMissingMessageWarning(file, srcMessage)
                ELSE compareMessages(engine, file.uri,
                        LastWithId(file.messages, srcMessage.id), srcMessage)])
        \o Concat([i \in 1..Len(file.messages) |->
            IF ~HasId(srcFile.messages, file.messages[i].id)
            THEN addEntryWarning(engine, file.uri, file.messages[i], UnknownMessage,
                    <<file.messages[i].id>>)
            ELSE <<>>])

HasName(list, name) == \E i \in 1..Len(list) : list[i].name = name

LastWithName(list, name) ==
    list[CHOOSE i \in 1..Len(list) :
            list[i].name = name /\ \A j \in (i + 1)..Len(list) : list[j].name # name]

\* compareGroups: files and srcFiles are the FileInfo of the two groups in the
\* order of their maps.
compareGroups(engine, useRelativePaths, locale, files, srcFiles) ==
    Concat([i \in 1..Len(srcFiles) |->
        IF ~HasName(files, srcFiles[i].name)
        THEN addMissingFileWarning(useRelativePaths, srcFiles[i], locale)
        ELSE compareFiles(engine, useRelativePaths,
                LastWithName(files, srcFiles[i].name), srcFiles[i])])
    \o Concat([i \in 1..Len(files) |->
        IF ~HasName(srcFiles, files[i].name)
        THEN addUnknownFileWarning(useRelativePaths, files[i])
        ELSE <<>>])

\* ----------------------------------------------------------- discovery

\* A directory tree is a function from the paths of its directories (relative to
\* the base directory, <<>> being the base) to the entries readdir lists for
\* them, in the order it lists them; an entry has a name and a kind ("dir",
\* "file", or "other" for what is neither).  The URI of a file is its path.

IsFtlName(name) == EndsWith(ToUpper(name), <<".", "FTL">>)

IsHidden(name) == name # <<>> /\ name[1] = "."

\* isPathInside(path, base) for a path relative to the base directory: path is
\* None for the parent of the base directory.
isPathInside(path) == path # None /\ path[1] # <<>>

\* path.dirname of a directory path relative to the base directory.
dirnameOf(path) == IF path = <<>> THEN None ELSE Some(SubSeq(path, 1, Len(path) - 1))

\* The groups getCollection builds from the locale directories not yet read;
\* failed when an entry of a locale directory is not an .ftl file.
RECURSIVE collectLocales(_, _, _, _)
collectLocales(t, curPath, localeDirs, acc) ==
    IF localeDirs = <<>> \/ acc.failed THEN acc
    ELSE LET locale == Head(localeDirs)
             dirPath == Append(curPath, locale)
             ftlEntries == t[dirPath]
             bad == \E i \in 1..Len(ftlEntries) :
                        ftlEntries[i].kind # "file" \/ ~IsFtlName(ftlEntries[i].name)
             group == [locale |-> locale,
                       files |-> [i \in 1..Len(ftlEntries) |->
                                    Append(dirPath, ftlEntries[i].name)]]
         IN  collectLocales(t, curPath, Tail(localeDirs),
                [failed |-> bad,
                 groups |-> IF ftlEntries = <<>> THEN acc.groups
                            ELSE Append(acc.groups, group)])

\* getCollection that reads the first locale directory only.
getCollectionFirstLocale(t, curPath) ==
    LET entries == t[curPath]
    IN  IF \E i \in 1..Len(entries) : entries[i].kind # "dir" THEN None
        ELSE LET got == collectLocales(t, curPath,
                            [i \in 1..(IF entries = <<>> THEN 0 ELSE 1) |-> entries[i].name],
                            [failed |-> FALSE, groups |-> <<>>])
             IN  IF got.failed THEN None
                 ELSE Some([path |-> curPath, groups |-> got.groups])

\* getCollection: None, or Some(collection) with its groups in insertion order.
getCollection(t, curPath) ==
    LET entries == t[curPath]
    IN  IF \E i \in 1..Len(entries) : entries[i].kind # "dir" THEN None
        ELSE LET got == collectLocales(t, curPath,
                            [i \in 1..Len(entries) |-> entries[i].name],
                            [failed |-> FALSE, groups |-> <<>>])
             IN  IF got.failed THEN None
                 ELSE Some([path |-> curPath, groups |-> got.groups])

\* A collection none of whose files is claimed.
CollectionUrisNone(collection) == {}

\* The URIs discoverInternal adds to ctx.uris for a collection it found.
CollectionUris(collection) ==
    UNION {RangeOf(collection.groups[g].files) : g \in 1..Len(collection.groups)}

\* The first loop of discoverInternal over the entries of curPath.
RECURSIVE discoverEntries(_, _, _, _)
discoverEntries(t, curPath, entries, ctx) ==
    IF entries = <<>> THEN ctx
    ELSE LET entry == Head(entries)
             uri == Append(curPath, entry.name)
             grandparent == dirnameOf(curPath)
             collection == IF isPathInside(grandparent)
                           THEN getCollection(t, grandparent[1]) ELSE None
             next ==
                IF entry.kind # "file" \/ ~IsFtlName(entry.name) THEN ctx
                ELSE IF uri \in ctx.uris THEN ctx
                ELSE IF collection = None
                THEN [ctx EXCEPT !.uris = @ \cup {uri},
                                 !.ungrouped.files = Append(@, uri)]
                ELSE [ctx EXCEPT !.uris = @ \cup CollectionUris(collection[1]),
                                 !.collections = Append(@, collection[1])]
         IN  discoverEntries(t, curPath, Tail(entries), next)

\* The directories the second loop of discoverInternal descends into.
RECURSIVE subdirsOf(_, _)
subdirsOf(curPath, entries) ==
    IF entries = <<>> THEN <<>>
    ELSE (IF Head(entries).kind = "dir" /\ ~IsHidden(Head(entries).name)
          THEN <<Append(curPath, Head(entries).name)>> ELSE <<>>)
         \o subdirsOf(curPath, Tail(entries))

\* The DiscoveryResult discoverInternal starts from.
newContext ==
    [collections |-> <<>>, ungrouped |-> [locale |-> <<>>, files |-> <<>>], uris |-> {}]

\* discoverInternal with its recursion: pending holds the directories still to
\* walk, the next one first.
RECURSIVE discoverWalk(_, _, _)
discoverWalk(t, pending, ctx) ==
    IF pending = <<>> THEN ctx
    ELSE discoverWalk(t,
            subdirsOf(Head(pending), t[Head(pending)]) \o Tail(pending),
            discoverEntries(t, Head(pending), t[Head(pending)], ctx))

\* discover(basePath) on the tree t.
discover(t) == discoverWalk(t, <<<<>>>>, newContext)

\* --------------------------------------------------------------- state

VARIABLES
    tree,             \* the directory tree under the base directory
    disk,             \* what each file holds: its length and its parsed body
    sourceLocale,     \* FtlAnalyzer.sourceLocale
    ignore,           \* FtlAnalyzer.ignore
    useRelativePaths, \* FtlAnalyzer.useRelativePaths
    diagnostics,      \* FtlAnalyzer.diagnostics
    discovered,       \* the DiscoveryResult (groups hold the URIs of their files)
    files,            \* the FileInfo objects of the DiscoveryResult, by URI
    pending,          \* the directories discoverInternal has yet to walk
    todo,             \* the steps the running pass has yet to take
    status,           \* "new", "discovering", "idle", "running" or "thrown"
    pass,             \* how many passes of processDiscoveredFiles have begun
    reads,            \* history: how many reads of each file have begun
    firstPass,        \* history: the diagnostics at the end of the first pass
    answer,           \* the latest call of shouldIgnore and what it returned
    taken             \* history: the steps the latest pass has taken, in order
                      \* (builtins is declared with the records, above)

vars == <<tree, disk, sourceLocale, ignore, useRelativePaths, diagnostics, discovered,
          files, pending, todo, status, pass, reads, firstPass, answer, taken, builtins>>

config == <<tree, disk, sourceLocale, ignore, useRelativePaths>>

\* How many passes of processDiscoveredFiles a behaviour makes at most.
MaxPasses == 2

Step(op, uri, c, g) == [op |-> op, uri |-> uri, c |-> c, g |-> g]

\* A step that was taken; ok says whether fs.readFile succeeded in a read.
Taken(step, ok) == [op |-> step.op, uri |-> step.uri, c |-> step.c, g |-> step.g, ok |-> ok]

\* Whether fs.readFile succeeds on a file: it may do either on an unsteady one.
ReadOutcomes(content) == IF content.unsteady THEN BOOLEAN ELSE {content.readable}

\* The group g of collection c; collection 0 is the ungrouped group.
GroupOf(c, g) ==
    IF c = 0 THEN discovered.ungrouped ELSE discovered.collections[c].groups[g]

FilesOf(fs, group) == [i \in 1..Len(group.files) |-> fs[group.files[i]]]

\* readGroup: one read per file of the group.
ReadSteps(group) == [i \in 1..Len(group.files) |-> Step("read", group.files[i], 0, 0)]

\* A processCollection that looks the source group up, and compares, before
\* it reads the groups.
CollectionStepsCompareFirst(c) ==
    LET groups == discovered.collections[c].groups
    IN  <<Step("select", <<>>, c, 0)>>
        \o Concat([g \in 1..Len(groups) |-> ReadSteps(groups[g])])

\* processCollection up to the lookup of the source group.
CollectionSteps(c) ==
    LET groups == discovered.collections[c].groups
    IN  Concat([g \in 1..Len(groups) |-> ReadSteps(groups[g])])
        \o <<Step("select", <<>>, c, 0)>>

\* processDiscoveredFiles
PassSteps ==
    Concat([c \in 1..Len(discovered.collections) |-> CollectionSteps(c)])
    \o ReadSteps(discovered.ungrouped)
    \o <<Step("check", <<>>, 0, 0)>>

\* The second loop of processCollection.
CompareSteps(c) ==
    LET groups == discovered.collections[c].groups
    IN  [g \in 1..Len(groups) |->
            IF groups[g].locale = sourceLocale
            THEN Step("check", <<>>, c, g) ELSE Step("compare", <<>>, c, g)]

\* collection.groups.get(this.sourceLocale): 0 when undefined.
SourceGroupIndex(c) ==
    LET groups == discovered.collections[c].groups
    IN  IF \E g \in 1..Len(groups) : groups[g].locale = sourceLocale
        THEN CHOOSE g \in 1..Len(groups) : groups[g].locale = sourceLocale
        ELSE 0

\* ------------------------------------------------------------- actions

\* discover(basePath): the call of discoverInternal on the base directory.
Discover ==
    /\ status = "new"
    /\ status' = "discovering"
    /\ discovered' = newContext
    /\ pending' = <<<<>>>>
    /\ UNCHANGED <<config, builtins, diagnostics, files, todo, pass, reads, firstPass,
                   answer, taken>>

\* One call of discoverInternal: the loop over the entries of the directory,
\* then the directories to descend into, depth first.
DiscoverDir ==
    /\ status = "discovering"
    /\ pending # <<>>
    /\ LET curPath == Head(pending)
           ctx == discoverEntries(tree, curPath, tree[curPath], discovered)
       IN  /\ discovered' = ctx
           /\ pending' = subdirsOf(curPath, tree[curPath]) \o Tail(pending)
           /\ files' = [u \in ctx.uris |->
                            IF u \in DOMAIN files THEN files[u] ELSE createFileRecord(u)]
           /\ reads' = [u \in ctx.uris |-> 0]
    /\ UNCHANGED <<config, builtins, diagnostics, todo, status, pass, firstPass, answer, taken>>

\* discover returns the DiscoveryResult.
DiscoverDone ==
    /\ status = "discovering"
    /\ pending = <<>>
    /\ status' = "idle"
    /\ UNCHANGED <<config, builtins, diagnostics, discovered, files, pending, todo, pass, reads,
                   firstPass, answer, taken>>

\* A call of processDiscoveredFiles on the DiscoveryResult.
BeginPass ==
    /\ status \in {"idle", "thrown"}
    /\ pass < MaxPasses
    /\ status' = "running"
    /\ pass' = pass + 1
    /\ todo' = PassSteps
    /\ taken' = <<>>
    /\ UNCHANGED <<config, builtins, diagnostics, discovered, files, pending, reads,
                   firstPass, answer>>

\* What read(file) leaves behind: r is what the read after the delete gives.
ReadDone(uri, r) ==
    /\ reads' = [reads EXCEPT ![uri] = @ + 1]
    /\ files' = [files EXCEPT ![uri] = r.file]
    /\ diagnostics' = addAll(MapDelete(diagnostics, uri), r.emits, reads', Contents(files'))
    /\ builtins' = Written(builtins, r.writes)
    /\ todo' = IF r.thrown THEN <<>> ELSE Tail(todo)
    /\ status' = IF r.thrown THEN "thrown" ELSE status

\* read(file): the diagnostics of the file are deleted, then the file is parsed
\* and normalised; a throw of an annotation handler rejects the pass.
ReadFile ==
    /\ status = "running"
    /\ todo # <<>>
    /\ Head(todo).op = "read"
    /\ \E ok \in ReadOutcomes(disk[Head(todo).uri]) :
        /\ ReadDone(Head(todo).uri,
                    read(ignore, files[Head(todo).uri],
                         [disk[Head(todo).uri] EXCEPT !.readable = ok]))
        /\ taken' = Append(taken, Taken(Head(todo), ok))
    /\ UNCHANGED <<config, discovered, pending, pass, firstPass, answer>>

\* processCollection after the reads: without a group of the source locale it
\* returns, otherwise every group is checked or compared.
SelectSource ==
    /\ status = "running"
    /\ todo # <<>>
    /\ Head(todo).op = "select"
    /\ todo' = IF SourceGroupIndex(Head(todo).c) = 0 THEN Tail(todo)
               ELSE CompareSteps(Head(todo).c) \o Tail(todo)
    /\ taken' = Append(taken, Taken(Head(todo), TRUE))
    /\ UNCHANGED <<config, builtins, diagnostics, discovered, files, pending, status, pass, reads,
                   firstPass, answer>>

\* The end of a check or a comparison: the diagnostics added before a
\* TypeError, if one was thrown, which ends the pass.
Compared(emits) ==
    /\ diagnostics' = addAll(diagnostics, BeforeThrow(emits), reads, Contents(files))
    /\ todo' = IF Throws(emits) THEN <<>> ELSE Tail(todo)
    /\ status' = IF Throws(emits) THEN "thrown" ELSE status

\* checkSourceGroup on the source group of a collection or on the ungrouped files.
CheckSourceGroup ==
    /\ status = "running"
    /\ todo # <<>>
    /\ Head(todo).op = "check"
    /\ LET group == GroupOf(Head(todo).c, Head(todo).g)
       IN  Compared(checkSourceGroup(ignore, FilesOf(files, group)))
    /\ taken' = Append(taken, Taken(Head(todo), TRUE))
    /\ UNCHANGED <<config, builtins, discovered, files, pending, pass, reads, firstPass,
                   answer>>

\* compareGroups on a group of a collection and its source group.
CompareGroups ==
    /\ status = "running"
    /\ todo # <<>>
    /\ Head(todo).op = "compare"
    /\ LET c == Head(todo).c
           group == GroupOf(c, Head(todo).g)
           srcGroup == GroupOf(c, SourceGroupIndex(c))
       IN  Compared(compareGroups(ignore, useRelativePaths, group.locale,
                                  FilesOf(files, group), FilesOf(files, srcGroup)))
    /\ taken' = Append(taken, Taken(Head(todo), TRUE))
    /\ UNCHANGED <<config, builtins, discovered, files, pending, pass, reads, firstPass,
                   answer>>

\* processDiscoveredFiles returns.
EndPass ==
    /\ status = "running"
    /\ todo = <<>>
    /\ status' = "idle"
    /\ firstPass' = IF pass = 1 THEN Some(diagnostics) ELSE firstPass
    /\ UNCHANGED <<config, builtins, diagnostics, discovered, files, pending, todo, pass, reads,
                   answer, taken>>

Next ==
    \/ Discover
    \/ DiscoverDir
    \/ DiscoverDone
    \/ BeginPass
    \/ ReadFile
    \/ SelectSource
    \/ CheckSourceGroup
    \/ CompareGroups
    \/ EndPass

\* -------------------------------------------- calls of shouldIgnore

\* How many ignore sets a call of shouldIgnore passes at most.
MaxSets == 2

\* The codes shouldIgnore is asked about: the warning codes, and strings that
\* are no warning code.
AskedCodes ==
    WarnCodes \cup {<<"message">>, <<"missing">>, <<"a", "-", "b", "-", "c">>, <<"-", "x">>}

\* The ignore sets of an entry or of the analyzer.
AskedSets ==
    {{}, {<<"missing">>}, {<<"message">>}, {MissingMessage}, {<<"do">>},
     {DoNotTranslate}, {<<"a", "-", "b">>, <<>>}, {<<"missing">>, Duplicate}}

\* A call shouldIgnore(code, ...ignoreSets) on the analyzer.  The call leaves
\* the analyzer as it is, so one call is followed per behaviour.
ShouldIgnore ==
    /\ answer = None
    /\ \E code \in AskedCodes, n \in 0..MaxSets :
        \E ignoreSets \in [1..n -> AskedSets] :
            answer' = Some([code |-> code, sets |-> ignoreSets,
                            result |-> shouldIgnore(ignore, code, ignoreSets)])
    /\ UNCHANGED <<config, builtins, diagnostics, discovered, files, pending, todo, status, pass,
                   reads, firstPass, taken>>

NextShouldIgnore == ShouldIgnore

\* ------------------------------------------------- resources on disk

\* What the parser returns for a file is built from entries without spans; the
\* entry at position i of a resource occupies the offsets 16 * (i - 1) up to
\* 16 * i, its identifier comes first (after the "-" of a term) and its
\* attributes follow.
RawMessage(id, value, attributes, comment) ==
    [type |-> "Message", id |-> id, value |-> value, attributes |-> attributes,
     comment |-> comment, annotations |-> <<>>]

RawTerm(id, value, attributes, comment) ==
    [type |-> "Term", id |-> id, value |-> value, attributes |-> attributes,
     comment |-> comment, annotations |-> <<>>]

RawResourceComment(content) ==
    [type |-> "ResourceComment", id |-> <<>>, value |-> NoPattern, attributes |-> <<>>,
     comment |-> content, annotations |-> <<>>]

RawJunk(annotations) ==
    [type |-> "Junk", id |-> <<>>, value |-> NoPattern, attributes |-> <<>>,
     comment |-> <<>>, annotations |-> annotations]

RawAttribute(id, value) == [id |-> id, value |-> value]

Placed(raw, i) ==
    LET at == LineLen * (i - 1)
        idStart == IF raw.type = "Term" THEN at + 1 ELSE at
    IN  [type |-> raw.type,
         id |-> raw.id,
         span |-> [start |-> idStart, end |-> idStart + 1],
         value |-> raw.value,
         attributes |-> [j \in 1..Len(raw.attributes) |->
                            [id |-> raw.attributes[j].id,
                             span |-> [start |-> at + 2 + 2 * j, end |-> at + 3 + 2 * j],
                             value |-> raw.attributes[j].value]],
         comment |-> raw.comment,
         annotations |-> [j \in 1..Len(raw.annotations) |->
                            [code |-> raw.annotations[j].code,
                             args |-> raw.annotations[j].args,
                             span |-> [start |-> at + j, end |-> at + j + 1]]]]

\* The content of a file: its length and the body of the parsed resource.
\* readable says whether fs.readFile succeeds on the file, and unsteady whether
\* it succeeds at one time and fails at another.
Resource(raws) ==
    [readable |-> TRUE, unsteady |-> FALSE, len |-> LineLen * Len(raws),
     body |-> [i \in 1..Len(raws) |-> Placed(raws[i], i)]]

\* A file that fs.readFile fails on.
Unreadable == [readable |-> FALSE, unsteady |-> FALSE, len |-> 0, body |-> <<>>]

\* A file that fs.readFile may fail on.
Unsteady(raws) == [Resource(raws) EXCEPT !.unsteady = TRUE]

Text(t) == Node("TextElement", <<t>>, <<>>)

VarRef(name) == Node("VariableReference", name, <<>>)

Placeable(expression) == Node("Placeable", <<>>, <<expression>>)

Pattern(elements) == Node("Pattern", <<>>, elements)

PHi == Pattern(<<Text("Hi")>>)

PYo == Pattern(<<Text("Yo")>>)

PHiName == Pattern(<<Text("Hi"), Placeable(VarRef(<<"name">>))>>)

PYoName == Pattern(<<Text("Yo"), Placeable(VarRef(<<"name">>))>>)

PYoWho == Pattern(<<Text("Yo"), Placeable(VarRef(<<"who">>))>>)

\* One line of a comment.
Line(tokens) == tokens \o <<"\n">>

RECURSIVE Repeat(_, _)
Repeat(x, n) == IF n = 0 THEN <<>> ELSE <<x>> \o Repeat(x, n - 1)

\* The names of the directory trees.
DirS == <<"s">>
En == <<"en">>
Fr == <<"fr">>
De == <<"de">>
AFtl == <<"a", ".", "ftl">>
BFtl == <<"b", ".", "ftl">>
UFtl == <<"u", ".", "ftl">>

DirEntry(name) == [name |-> name, kind |-> "dir"]

FileEntry(name) == [name |-> name, kind |-> "file"]

OtherEntry(name) == [name |-> name, kind |-> "other"]

\* The .ftl files of a tree, by path.
FtlFiles(t) ==
    UNION {{Append(d, t[d][i].name) :
                i \in {j \in 1..Len(t[d]) :
                        t[d][j].kind = "file" /\ IsFtlName(t[d][j].name)}} :
           d \in DOMAIN t}

\* A tree with one directory s of locale directories en and fr, listed in
\* either order, and files in the base directory.
LocaleTree(enFirst, enFiles, frFiles, rootFiles) ==
    [d \in {<<>>, <<DirS>>, <<DirS, En>>, <<DirS, Fr>>} |->
        CASE d = <<>> -> <<DirEntry(DirS)>> \o [i \in 1..Len(rootFiles) |-> FileEntry(rootFiles[i])]
          [] d = <<DirS>> -> IF enFirst THEN <<DirEntry(En), DirEntry(Fr)>>
                             ELSE <<DirEntry(Fr), DirEntry(En)>>
          [] d = <<DirS, En>> -> [i \in 1..Len(enFiles) |-> FileEntry(enFiles[i])]
          [] d = <<DirS, Fr>> -> [i \in 1..Len(frFiles) |-> FileEntry(frFiles[i])]]

\* The state after the construction of the analyzer, before discovery.
InitWith(t, d, src, ign, rel) ==
    /\ tree = t
    /\ disk = d
    /\ sourceLocale = src
    /\ ignore = ign
    /\ useRelativePaths = rel
    /\ diagnostics = <<>>
    /\ discovered = newContext
    /\ files = <<>>
    /\ pending = <<>>
    /\ todo = <<>>
    /\ status = "new"
    /\ pass = 0
    /\ reads = <<>>
    /\ firstPass = None
    /\ answer = None
    /\ taken = <<>>
    /\ builtins = [key \in ObjectPrototypeKeys |-> NoProps]

\* ------------------------------------- duplicates and repeated passes

\* How often a resource repeats an entry at most.
MaxRepeat == 3

MsgM == RawMessage(<<"m">>, PHi, <<>>, <<>>)

MsgK == RawMessage(<<"k">>, PHi, <<>>, <<>>)

TermT == RawTerm(<<"t">>, PHi, <<>>, <<>>)

\* A message whose comment puts `duplicate` into its ignore set.
MsgMQuiet ==
    RawMessage(<<"m">>, PHi, <<>>, Line(AtDiagnostic \o <<" ", "enable", " ", "duplicate">>))

\* A message with the attribute x given twice.
MsgMAttrs ==
    RawMessage(<<"m">>, PHi, <<RawAttribute(<<"x">>, PHi), RawAttribute(<<"x">>, PYo)>>, <<>>)

JunkE == RawJunk(<<[code |-> <<"E0003">>, args |-> <<<<"=">>>>]>>)

DuplicateResources ==
    {Resource(Repeat(MsgM, n)) : n \in 0..MaxRepeat}
    \cup {Resource(<<MsgM, MsgK, MsgM>>),
          Resource(<<TermT, TermT, MsgM>>),
          Resource(<<JunkE, MsgMQuiet, MsgMQuiet>>),
          Resource(<<MsgMAttrs, MsgK>>)}

DuplicateTrees ==
    {LocaleTree(enFirst, <<AFtl>>, frFiles, rootFiles) :
        enFirst \in BOOLEAN, frFiles \in {<<AFtl>>, <<BFtl>>},
        rootFiles \in {<<>>}}
    \cup {LocaleTree(TRUE, <<AFtl>>, <<>>, <<UFtl>>)}

\* Files that repeat messages, terms and attributes, with and without a group
\* of the source locale.
InitDuplicates ==
    \E t \in DuplicateTrees :
        \E d \in [FtlFiles(t) -> DuplicateResources] :
            \E src \in {En, De} :
                InitWith(t, d, src, {}, FALSE)

\* ------------------------------------------------ translation policies

ResOptional == RawResourceComment(Line(AtTranslateOptional))

ResDisallowed == RawResourceComment(Line(AtDoNotTranslate))

ResGlobal == RawResourceComment(Line(AtGlobal))

ResBundle == RawResourceComment(Line(AtBundle \o <<" ", "ui">>))

MsgKOptional == RawMessage(<<"k">>, PHi, <<>>, Line(AtTranslateOptional))

MsgKDisallowed == RawMessage(<<"k">>, PHi, <<>>, Line(AtDoNotTranslate))

MsgKRequired == RawMessage(<<"k">>, PHi, <<>>, Line(AtTranslate))

MsgMYo == RawMessage(<<"m">>, PYo, <<>>, <<>>)

PolicySources ==
    {Resource(<<MsgM, MsgK>>),
     Resource(<<MsgM, MsgKOptional>>),
     Resource(<<MsgKDisallowed, MsgM>>),
     Resource(<<ResOptional, MsgM, MsgK>>),
     Resource(<<MsgM, ResDisallowed, MsgK>>),
     Resource(<<ResOptional, MsgM, MsgKRequired>>),
     Resource(<<ResGlobal, MsgM, MsgK>>),
     Resource(<<ResBundle, MsgM, MsgK>>)}

PolicyTargets ==
    {Resource(<<>>),
     Resource(<<MsgMYo>>),
     Resource(<<MsgMYo, MsgK>>),
     Resource(<<ResGlobal, MsgMYo>>),
     Unreadable}

\* A source file with every translation policy, at the entry and at the
\* resource, against targets that lack its messages.
InitPolicy ==
    \E en \in PolicySources, fr \in PolicyTargets :
        InitWith(LocaleTree(TRUE, <<AFtl>>, <<AFtl>>, <<>>),
                 [u \in FtlFiles(LocaleTree(TRUE, <<AFtl>>, <<AFtl>>, <<>>)) |->
                    IF u[2] = En THEN en ELSE fr],
                 En, {}, TRUE)

\* -------------------------------------------------- declared parameters

Name == <<"name">>

ParamName == AtParam \o <<" ", "$">> \o Name

MsgG(value, comment) == RawMessage(<<"g">>, value, <<>>, comment)

ParamComments ==
    {<<>>,
     Line(ParamName),
     Line(ParamName \o <<" ", "string">>),
     Line(ParamName \o <<"?", " ", "string">>),
     Line(ParamName \o <<" ", "#", " ", "who">>),
     Line(ParamName \o <<" ", "string", " ", "#", " ", "who">>)}

\* A source message that uses $name, with and without a declaration of it,
\* against targets that keep, drop or rename the variable.
InitParams ==
    \E srcComment \in ParamComments, value \in {PYo, PYoName, PYoWho},
       comment \in {<<>>, Line(ParamName \o <<" ", "string">>)} :
        InitWith(LocaleTree(TRUE, <<AFtl>>, <<AFtl>>, <<>>),
                 [u \in FtlFiles(LocaleTree(TRUE, <<AFtl>>, <<AFtl>>, <<>>)) |->
                    IF u[2] = En THEN Resource(<<MsgG(PHiName, srcComment)>>)
                    ELSE Resource(<<MsgG(value, comment)>>)],
                 En, {}, FALSE)

\* ----------------------------------------------- annotation directives

\* `@param name`: no "$" before the name.
DirParamNoDollar == Line(AtParam \o <<" ", "name">>)

\* `@param` without any text.
DirParamBare == Line(AtParam)

\* `@param-attribute $name string`: no attribute is named.
DirParamAttrNoAttr == Line(AtParamAttribute \o <<" ", "$", "name", " ", "string">>)

\* `@param-attribute nope $name string`: the entry has no attribute nope.
DirParamAttrNope ==
    Line(AtParamAttribute \o <<" ", "nope", " ", "$", "name", " ", "string">>)

\* `@todo later`: no directive of that name exists.
DirUnknown == Line(<<"@", "todo", " ", "later">>)

\* `@translate nope` and `@expect-identical nope`: the entry has no attribute nope.
DirTranslateNope == Line(AtTranslate \o <<" ", "nope">>)

DirExpectNope == Line(AtExpectIdentical \o <<" ", "nope">>)

\* `@param $name` and `@param-attribute x $name`: no type, no description.
DirParam == Line(ParamName)

DirParamAttr == Line(AtParamAttribute \o <<" ", "x", " ", "$", "name">>)

\* The directives that name nothing the entry has, or are not understood.
MalformedDirectives ==
    {DirParamNoDollar, DirParamBare, DirParamAttrNoAttr, DirParamAttrNope, DirUnknown,
     DirTranslateNope, DirExpectNope}

\* The comments made of at most two of the directives.
DirectiveComments(directives) ==
    {<<>>} \cup directives \cup {a \o b : a \in directives, b \in directives}

\* A message g with the attribute x, both using $name.
MsgGX(comment) == RawMessage(<<"g">>, PHiName, <<RawAttribute(<<"x">>, PHiName)>>, comment)

\* A source message with every comment of at most two directives, malformed
\* ones and parameters without a type among them, against a plain target.
InitDirectives ==
    \E comment \in DirectiveComments(MalformedDirectives \cup {DirParam, DirParamAttr}) :
        InitWith(LocaleTree(TRUE, <<AFtl>>, <<AFtl>>, <<>>),
                 [u \in FtlFiles(LocaleTree(TRUE, <<AFtl>>, <<AFtl>>, <<>>)) |->
                    IF u[2] = En THEN Resource(<<MsgGX(comment)>>)
                    ELSE Resource(<<MsgGX(<<>>)>>)],
                 En, {}, FALSE)

\* ------------------------------------------------------ parser errors

\* A Junk entry with two annotations of the parser.
JunkTwo ==
    RawJunk(<<[code |-> <<"E0003">>, args |-> <<<<"=">>>>],
              [code |-> <<"E0004">>, args |-> <<>>]>>)

JunkResources ==
    {Resource(<<JunkE>>),
     Resource(<<JunkE, MsgM, JunkTwo>>),
     Resource(<<MsgM, JunkTwo, MsgM>>),
     Resource(<<JunkE, MsgG(PHiName, DirParam)>>),
     Resource(<<MsgG(PHiName, DirParam), JunkE>>)}

\* Files with content the parser could not interpret, before and after the
\* messages, and after a message whose comment declares an untyped parameter.
InitJunk ==
    \E en \in JunkResources, fr \in JunkResources :
        InitWith(LocaleTree(TRUE, <<AFtl>>, <<AFtl>>, <<>>),
                 [u \in FtlFiles(LocaleTree(TRUE, <<AFtl>>, <<AFtl>>, <<>>)) |->
                    IF u[2] = En THEN en ELSE fr],
                 En, {}, FALSE)

\* ------------------------------------------------------------ bundles

ResBundleUx == RawResourceComment(Line(AtBundle \o <<" ", "ux">>))

\* `@bundle` without a name.
ResBundleBare == RawResourceComment(Line(AtBundle))

MsgX == RawMessage(<<"x">>, PHi, <<>>, <<>>)

\* The resource comments a file starts with: none, global, a named bundle, a
\* bundle without a name, and a named bundle in a global resource.
BundleHeaders ==
    {<<>>, <<ResGlobal>>, <<ResBundle>>, <<ResBundleUx>>, <<ResBundleBare>>,
     <<ResBundle, ResGlobal>>}

\* A source and a target of every bundle; the target repeats a message of the
\* source as it is, lacks another and has one the source lacks.
InitBundles ==
    \E en \in BundleHeaders, fr \in BundleHeaders :
        InitWith(LocaleTree(TRUE, <<AFtl>>, <<AFtl>>, <<>>),
                 [u \in FtlFiles(LocaleTree(TRUE, <<AFtl>>, <<AFtl>>, <<>>)) |->
                    IF u[2] = En THEN Resource(en \o <<MsgM, MsgK>>)
                    ELSE Resource(fr \o <<MsgM, MsgM, MsgX>>)],
                 En, {}, FALSE)

\* -------------------------------------------------- identical messages

\* A message i with the attribute x; its value may be absent.
MsgI(value, comment) == RawMessage(<<"i">>, value, <<RawAttribute(<<"x">>, PHi)>>, comment)

ExpectIdentical == Line(AtExpectIdentical)

\* `@diagnostic enable identical` puts the code into the ignore set of the entry.
IgnoreIdentical == Line(AtDiagnostic \o <<" ", "enable", " ", "identical">>)

\* A message with and without a value, flagged or not, against a message of the
\* same, another or no value, flagged or not, or ignoring `identical`.
InitIdentical ==
    \E srcValue \in {PHi, NoPattern}, value \in {PHi, PYo, NoPattern},
       srcComment \in {<<>>, ExpectIdentical},
       comment \in {<<>>, ExpectIdentical, IgnoreIdentical} :
        InitWith(LocaleTree(TRUE, <<AFtl>>, <<AFtl>>, <<>>),
                 [u \in FtlFiles(LocaleTree(TRUE, <<AFtl>>, <<AFtl>>, <<>>)) |->
                    IF u[2] = En THEN Resource(<<MsgI(srcValue, srcComment), MsgK>>)
                    ELSE Resource(<<MsgK, MsgI(value, comment)>>)],
                 En, {}, FALSE)

\* ------------------------------------------------------ missing files

\* A resource comment with one `@diagnostic` annotation.
ResDiagnostic(text) == RawResourceComment(Line(AtDiagnostic \o <<" ">> \o text))

\* What the source file starts with: `@diagnostic disable` and `@diagnostic
\* enable` of the code and of its category, the translation policies, and
\* `@diagnostic disable` followed by a comment.
MissingFileHeaders ==
    {<<>>,
     <<ResDiagnostic(<<"disable", " ">> \o MissingFile)>>,
     <<ResDiagnostic(<<"disable", " ", "missing">>)>>,
     <<ResDiagnostic(<<"enable", " ">> \o MissingFile)>>,
     <<ResDiagnostic(<<"enable", " ", "missing">>)>>,
     <<ResDiagnostic(<<"enable", " ">> \o MissingFile),
       ResDiagnostic(<<"disable", " ">> \o MissingFile)>>,
     <<ResDiagnostic(<<"disable", " ", "#", " ", "all">>)>>,
     <<ResOptional>>,
     <<ResDisallowed>>,
     <<ResOptional, RawResourceComment(Line(AtTranslate))>>}

\* A tree with the locale directories en, fr and de below s.
ThreeLocaleTree(enFiles, frFiles, deFiles) ==
    [d \in {<<>>, <<DirS>>, <<DirS, En>>, <<DirS, Fr>>, <<DirS, De>>} |->
        CASE d = <<>> -> <<DirEntry(DirS)>>
          [] d = <<DirS>> -> <<DirEntry(En), DirEntry(Fr), DirEntry(De)>>
          [] d = <<DirS, En>> -> [i \in 1..Len(enFiles) |-> FileEntry(enFiles[i])]
          [] d = <<DirS, Fr>> -> [i \in 1..Len(frFiles) |-> FileEntry(frFiles[i])]
          [] d = <<DirS, De>> -> [i \in 1..Len(deFiles) |-> FileEntry(deFiles[i])]]

\* A source file that one or two of the other locales lack.
InitMissingFile ==
    \E header \in MissingFileHeaders, deFiles \in {<<AFtl>>, <<BFtl>>}, rel \in BOOLEAN :
        InitWith(ThreeLocaleTree(<<AFtl>>, <<BFtl>>, deFiles),
                 [u \in FtlFiles(ThreeLocaleTree(<<AFtl>>, <<BFtl>>, deFiles)) |->
                    IF u[2] = En THEN Resource(header \o <<MsgM>>)
                    ELSE Resource(<<MsgM>>)],
                 En, {}, rel)

\* ------------------------------------------------ @diagnostic directives

DiagLine(text) == Line(AtDiagnostic \o <<" ">> \o text)

\* The comments of an entry: @diagnostic directives with lists, one after the
\* other, and directives with no list.
DiagnosticComments ==
    {DiagLine(<<"disable", " ">> \o Duplicate \o <<",", " ">> \o Identical),
     DiagLine(<<"enable", " ">> \o Identical),
     DiagLine(<<"disable", " ">> \o Identical) \o DiagLine(<<"enable", " ">> \o Identical),
     DiagLine(<<"enable", " ">> \o Identical) \o DiagLine(<<"disable", " ">> \o Identical),
     DiagLine(<<"enable", " ">> \o Duplicate \o <<",">> \o Identical)
        \o DiagLine(<<"disable", " ">> \o Duplicate),
     DiagLine(<<"disable">>),
     DiagLine(<<"enable">>),
     DiagLine(<<"disable", " ", "#", " ", "all">>) \o DiagLine(<<"enable">>),
     DiagLine(<<"disable", " ", "#", " ", "all">>) \o DiagLine(<<"enable", " ", "#">>)}

MsgD(comment) == RawMessage(<<"d">>, PHi, <<>>, comment)

\* The source file has a resource comment or none, the message d, the term t,
\* a second resource comment or none and the message k; the file of the locale
\* fr has d, with the value it has in the source file, and k.
InitDiagnostics ==
    \E comment \in DiagnosticComments,
       header \in {<<>>, <<ResDiagnostic(<<"enable", " ">> \o Identical)>>,
                   <<ResDiagnostic(<<"disable", " ">> \o Identical)>>},
       later \in {<<>>, <<ResDiagnostic(<<"enable", " ">> \o Duplicate)>>},
       other \in {<<>>, DiagLine(<<"enable", " ">> \o Identical),
                  DiagLine(<<"disable", " ">> \o Identical)} :
        InitWith(LocaleTree(TRUE, <<AFtl>>, <<AFtl>>, <<>>),
                 [u \in FtlFiles(LocaleTree(TRUE, <<AFtl>>, <<AFtl>>, <<>>)) |->
                    IF u[2] = En
                    THEN Resource(header \o <<MsgD(comment), TermT>> \o later \o <<MsgK>>)
                    ELSE Resource(<<MsgD(other), MsgK>>)],
                 En, {}, FALSE)

\* ------------------------------------------- resource-level policies

\* A resource-level policy annotation, or none.
PolicyComments ==
    {<<>>, <<ResOptional>>, <<ResDisallowed>>, <<RawResourceComment(Line(AtTranslate))>>}

TermTX == RawTerm(<<"t">>, PHi, <<RawAttribute(<<"x">>, PHi)>>, <<>>)

\* The source file has the message g and the term t, each with an attribute,
\* and the message k, with a resource comment or none before g, before k and
\* after k; the file of the locale fr has g and k and no annotation.
InitPositional ==
    \E first \in PolicyComments, second \in PolicyComments, last \in PolicyComments :
        InitWith(LocaleTree(TRUE, <<AFtl>>, <<AFtl>>, <<>>),
                 [u \in FtlFiles(LocaleTree(TRUE, <<AFtl>>, <<AFtl>>, <<>>)) |->
                    IF u[2] = En
                    THEN Resource(first \o <<MsgGX(<<>>), TermTX>> \o second \o <<MsgK>> \o last)
                    ELSE Resource(<<MsgGX(<<>>), MsgK>>)],
                 En, {}, FALSE)

\* ------------------------------------------------ targeted annotations

TargetedNames == {AtExpectIdentical, AtTranslate, AtDoNotTranslate, AtTranslateOptional}

\* What follows the name of a targeted annotation: nothing, `*`, the name of an
\* attribute the entry has, a name it has not, and names of Object.prototype.
TargetedValues ==
    {<<>>, <<" ", "*">>, <<" ", "x">>, <<" ", "x", " ", "#", " ", "note">>,
     <<" ", "nope">>, <<" ", "__proto__">>, <<" ", "constructor">>}

MsgGXY(comment) ==
    RawMessage(<<"g">>, PHi, <<RawAttribute(<<"x">>, PHi), RawAttribute(<<"y">>, PYo)>>,
               comment)

TermTXY(comment) ==
    RawTerm(<<"t">>, PHi, <<RawAttribute(<<"x">>, PHi), RawAttribute(<<"y">>, PYo)>>,
            comment)

\* The message g and the term t of the source file carry one targeted
\* annotation each, after a resource comment or none; the file of the locale fr
\* has g, with other values, and k and no annotation.
InitTargeted ==
    \E name \in TargetedNames, value \in TargetedValues,
       other \in {<<>>, Line(AtDoNotTranslate \o <<" ", "y">>)},
       header \in {<<>>, <<ResOptional>>} :
        InitWith(LocaleTree(TRUE, <<AFtl>>, <<AFtl>>, <<>>),
                 [u \in FtlFiles(LocaleTree(TRUE, <<AFtl>>, <<AFtl>>, <<>>)) |->
                    IF u[2] = En
                    THEN Resource(header \o <<MsgGXY(Line(name \o value)), TermTXY(other),
                                              MsgK>>)
                    ELSE Resource(<<MsgGXY(<<>>), MsgK>>)],
                 En, {}, FALSE)

\* ------------------------------------------------ sets of attributes

AttrX == RawAttribute(<<"x">>, PHi)
AttrY == RawAttribute(<<"y">>, PYo)
AttrZ == RawAttribute(<<"z">>, PHi)

\* An attribute with a name that Object.prototype has.
AttrConstructor == RawAttribute(<<"constructor">>, PHi)

\* Comments of the source entries: policies for the attribute x or for all.
AttributePolicies ==
    {<<>>, Line(AtTranslateOptional \o <<" ", "x">>), Line(AtDoNotTranslate \o <<" ", "x">>),
     Line(AtDoNotTranslate \o <<" ", "*">>)}

SourceAttributes == {<<AttrX>>, <<AttrX, AttrY>>}

TargetAttributes ==
    {<<>>, <<AttrX>>, <<AttrY>>, <<AttrZ, AttrX>>, <<AttrConstructor>>, <<AttrX, AttrConstructor>>}

\* Comments of the entries of the locale.
AttributeIgnores ==
    {<<>>, Line(AtDiagnostic \o <<" ", "disable", " ">> \o UnknownAttribute),
     Line(AtDiagnostic \o <<" ", "disable", " ">> \o MissingAttribute)}

\* The message g and the term t have attributes in the source file, with
\* policies, and other attributes in the file of the locale fr; the source file
\* may hold g a second time, with the attribute x alone.
InitAttributes ==
    \E policy \in AttributePolicies, srcAttrs \in SourceAttributes,
       attrs \in TargetAttributes, silent \in AttributeIgnores, again \in BOOLEAN :
        InitWith(LocaleTree(TRUE, <<AFtl>>, <<AFtl>>, <<>>),
                 [u \in FtlFiles(LocaleTree(TRUE, <<AFtl>>, <<AFtl>>, <<>>)) |->
                    IF u[2] = En
                    THEN Resource(<<RawMessage(<<"g">>, PHi, srcAttrs, policy),
                                    RawTerm(<<"t">>, PHi, srcAttrs, policy)>>
                                  \o (IF again THEN <<RawMessage(<<"g">>, PHi, <<AttrX>>, <<>>)>>
                                      ELSE <<>>))
                    ELSE Resource(<<RawMessage(<<"g">>, PYo, attrs, silent),
                                    RawTerm(<<"t">>, PYo, attrs, <<>>)>>)],
                 En, {}, FALSE)

\* ------------------------------------------------ referenced variables

\* A value that refers to a variable with a name that Object.prototype has.
PYoConstructor == Pattern(<<Text("Yo"), Placeable(VarRef(<<"constructor">>))>>)

\* `@param $id type`
ParamTyped(id, type) == Line(AtParam \o <<" ", "$">> \o id \o <<" ">> \o type)

\* A message g and its attribute x with the same value.
MsgGV(value, comment) == RawMessage(<<"g">>, value, <<RawAttribute(<<"x">>, value)>>, comment)

SourceParams ==
    {<<>>, ParamTyped(<<"who">>, <<"string">>), ParamTyped(<<"constructor">>, <<"string">>)}

TargetParams ==
    {<<>>, ParamTyped(<<"who">>, <<"number">>),
     Line(AtDiagnostic \o <<" ", "disable", " ">> \o UnknownVariable)}

\* The message g of the source file and of the file of the locale fr refer to
\* variables, in the value and in the attribute x, and declare parameters; the
\* base directory holds a file with the message of the locale.
InitVariables ==
    \E srcValue \in {PHi, PHiName}, srcComment \in SourceParams,
       value \in {PYo, PYoName, PYoWho, PYoConstructor}, comment \in TargetParams :
        InitWith(LocaleTree(TRUE, <<AFtl>>, <<AFtl>>, <<UFtl>>),
                 [u \in FtlFiles(LocaleTree(TRUE, <<AFtl>>, <<AFtl>>, <<UFtl>>)) |->
                    IF Len(u) = 3 /\ u[2] = En THEN Resource(<<MsgGV(srcValue, srcComment)>>)
                    ELSE Resource(<<MsgGV(value, comment)>>)],
                 En, {}, FALSE)

\* -------------------------------------------------- select expressions

FunctionReference(name, positional) == Node("FunctionReference", name, positional)

Variant(key, value) == Node("Variant", key, <<value>>)

SelectExpression(selector, variants) == Node("SelectExpression", <<>>, <<selector>> \o variants)

\* { $n -> [one] {$x} *[other] b }: x is referenced in the value of a variant only.
PSelectX ==
    Pattern(<<Placeable(SelectExpression(VarRef(<<"n">>),
        <<Variant(<<"one">>, Pattern(<<Placeable(VarRef(<<"x">>))>>)),
          Variant(<<"other">>, Pattern(<<Text("b")>>))>>))>>)

\* { $n -> [one] a *[other] { $n -> [one] {$y} *[other] b } }: y is two variants deep.
PSelectNested ==
    Pattern(<<Placeable(SelectExpression(VarRef(<<"n">>),
        <<Variant(<<"one">>, Pattern(<<Text("a")>>)),
          Variant(<<"other">>, Pattern(<<Placeable(SelectExpression(VarRef(<<"n">>),
              <<Variant(<<"one">>, Pattern(<<Placeable(VarRef(<<"y">>))>>)),
                Variant(<<"other">>, Pattern(<<Text("b")>>))>>))>>))>>))>>)

\* { NUMBER($n) -> [one] a *[other] b }: no reference in a variant.
PSelectPlain ==
    Pattern(<<Placeable(SelectExpression(FunctionReference(<<"NUMBER">>, <<VarRef(<<"n">>)>>),
        <<Variant(<<"one">>, Pattern(<<Text("a")>>)),
          Variant(<<"other">>, Pattern(<<Text("b")>>))>>))>>)

\* Hi { NUMBER($n, $x) }
PFunction ==
    Pattern(<<Text("Hi"),
              Placeable(FunctionReference(<<"NUMBER">>, <<VarRef(<<"n">>), VarRef(<<"x">>)>>))>>)

\* { { $x } } { $n }
PNested ==
    Pattern(<<Placeable(Placeable(VarRef(<<"x">>))), Placeable(VarRef(<<"n">>))>>)

SelectPatterns == {PHi, PSelectX, PSelectNested, PSelectPlain, PFunction, PNested}

\* A message g whose value is one of the patterns above, in both locales.
InitSelect ==
    \E value \in SelectPatterns, other \in SelectPatterns :
        InitWith(LocaleTree(TRUE, <<AFtl>>, <<AFtl>>, <<>>),
                 [u \in FtlFiles(LocaleTree(TRUE, <<AFtl>>, <<AFtl>>, <<>>)) |->
                    IF u[2] = En THEN Resource(<<MsgG(value, <<>>)>>)
                    ELSE Resource(<<MsgG(other, <<>>)>>)],
                 En, {}, FALSE)

\* ------------------------------------------------------ failing reads

\* A collection and an ungrouped file; the file of the locale fr, or that of
\* the source locale, may fail to be read in either pass.
InitUnsteady ==
    \E en \in {Resource(<<MsgM, MsgK>>), Unsteady(<<MsgM, MsgK>>)},
       fr \in {Unsteady(<<MsgM>>), Unsteady(<<ResGlobal, MsgMYo, TermT>>)} :
        InitWith(LocaleTree(TRUE, <<AFtl>>, <<AFtl>>, <<UFtl>>),
                 [u \in FtlFiles(LocaleTree(TRUE, <<AFtl>>, <<AFtl>>, <<UFtl>>)) |->
                    IF Len(u) = 1 THEN Resource(<<MsgM>>)
                    ELSE IF u[2] = En THEN en ELSE fr],
                 En, {}, FALSE)

\* ------------------------------------------------------- ignored codes

\* `@diagnostic disable` followed by a comment sets ignoreAll.
DisableAll == Line(AtDiagnostic \o <<" ", "disable", " ", "#", " ", "all">>)

XTwice == <<RawAttribute(<<"x">>, PHi), RawAttribute(<<"x">>, PYo)>>

MsgMSilent == RawMessage(<<"m">>, PHi, XTwice, DisableAll)

MsgMSilentPlain == RawMessage(<<"m">>, PHi, <<>>, DisableAll)

TermTSilent == RawTerm(<<"t">>, PHi, XTwice, DisableAll)

MsgMX == RawMessage(<<"m">>, PHi, <<RawAttribute(<<"x">>, PHi)>>, <<>>)

MsgMY == RawMessage(<<"m">>, PHi, <<RawAttribute(<<"y">>, PHi)>>, DisableAll)

IgnoreLists ==
    {{}, {<<"missing">>}, {Duplicate}, {<<"unknown">>}, {Identical}, {<<"mismatch">>}}

IgnoreSources ==
    {Resource(<<MsgM, MsgK>>), Resource(<<MsgMX, MsgMX>>), Resource(<<ResGlobal, MsgM>>)}

IgnoreTargets ==
    {Resource(<<MsgM>>), Resource(<<MsgMSilent>>), Resource(<<MsgMSilentPlain, MsgK>>),
     Resource(<<MsgMY, TermTSilent>>)}

\* Analyzers that ignore codes and categories, and entries with ignoreAll.
InitIgnore ==
    \E frFiles \in {<<AFtl>>, <<BFtl>>}, ign \in IgnoreLists :
        \E d \in [FtlFiles(LocaleTree(TRUE, <<AFtl>>, frFiles, <<>>)) ->
                    IgnoreSources \cup IgnoreTargets] :
            /\ d[<<DirS, En, AFtl>>] \in IgnoreSources
            /\ d[<<DirS, Fr, frFiles[1]>>] \in IgnoreTargets
            /\ InitWith(LocaleTree(TRUE, <<AFtl>>, frFiles, <<>>), d, En, ign, FALSE)

\* -------------------------------------------------- directory trees

DotH == <<".", "h">>
Sub == <<"sub">>
NoteTxt == <<"n", ".", "txt">>
UpperFtl == <<"A", ".", "FTL">>

\* x if b, nothing otherwise.
Opt(b, x) == IF b THEN <<x>> ELSE <<>>

\* What the directory fr holds, by the kind of tree.
FrEntries(fr) ==
    CASE fr = "same" -> <<FileEntry(AFtl)>>
      [] fr = "other" -> <<FileEntry(BFtl), FileEntry(UpperFtl)>>
      [] fr = "note" -> <<FileEntry(AFtl), FileEntry(NoteTxt)>>
      [] fr = "link" -> <<OtherEntry(AFtl)>>
      [] OTHER -> <<>>

FrKinds == {"absent", "empty", "same", "other", "note", "link"}

\* A tree around the directory s with the locale directory en: o says whether
\* the base directory holds a file, whether s holds a file, what fr is, and
\* whether there are a hidden locale directory, a hidden directory in the base
\* directory and a directory inside en.
DiscoveryTree(o) ==
    [d \in {<<>>, <<DirS>>, <<DirS, En>>}
           \cup (IF o.fr # "absent" THEN {<<DirS, Fr>>} ELSE {})
           \cup (IF o.hiddenLocale THEN {<<DirS, DotH>>} ELSE {})
           \cup (IF o.hiddenTop THEN {<<DotH>>} ELSE {})
           \cup (IF o.nested THEN {<<DirS, En, Sub>>} ELSE {}) |->
        CASE d = <<>> ->
                Opt(o.hiddenTop, DirEntry(DotH)) \o Opt(o.rootFile, FileEntry(UFtl))
                \o <<DirEntry(DirS)>>
          [] d = <<DirS>> ->
                Opt(o.hiddenLocale, DirEntry(DotH)) \o <<DirEntry(En)>>
                \o Opt(o.fr # "absent", DirEntry(Fr)) \o Opt(o.stray, FileEntry(BFtl))
          [] d = <<DirS, En>> -> <<FileEntry(AFtl)>> \o Opt(o.nested, DirEntry(Sub))
          [] d = <<DirS, Fr>> -> FrEntries(o.fr)
          [] OTHER -> <<FileEntry(AFtl)>>]

DiscoveryTrees ==
    {DiscoveryTree(o) :
        o \in [rootFile : BOOLEAN, stray : BOOLEAN, fr : FrKinds,
               hiddenLocale : BOOLEAN, hiddenTop : BOOLEAN, nested : BOOLEAN]}

\* Trees with and without a collection, every file holding one message.
InitDiscovery ==
    \E t \in DiscoveryTrees :
        InitWith(t, [u \in FtlFiles(t) |-> Resource(<<MsgM>>)], En, {}, FALSE)

Init ==
    \/ InitDuplicates
    \/ InitPolicy
    \/ InitParams
    \/ InitIgnore
    \/ InitDiscovery
    \/ InitDirectives
    \/ InitJunk
    \/ InitBundles
    \/ InitIdentical
    \/ InitMissingFile
    \/ InitUnsteady
    \/ InitSelect
    \/ InitDiagnostics
    \/ InitPositional
    \/ InitTargeted
    \/ InitAttributes
    \/ InitVariables

Spec == Init /\ [][Next]_vars

\* An analyzer constructed with an ignore list, before any discovery.
InitShouldIgnore ==
    \E ign \in AskedSets :
        InitWith([d \in {<<>>} |-> <<>>], <<>>, En, ign, FALSE)

SpecShouldIgnore == InitShouldIgnore /\ [][NextShouldIgnore]_vars

\* ------------------------------------------------ the diagnostic store

\* A diagnostic as a caller sees it, without the history value of the model.
Visible(d) ==
    [severity |-> d.severity, code |-> d.code, uri |-> d.uri, span |-> d.span,
     args |-> d.args]

\* How often the diagnostic v is in a list.
Count(list, v) == Cardinality({i \in 1..Len(list) : Visible(list[i]) = v})

\* Two lists hold the same diagnostics as often, in whatever order.
SameMultiset(a, b) ==
    /\ Len(a) = Len(b)
    /\ \A i \in 1..Len(a) : Count(a, Visible(a[i])) = Count(b, Visible(a[i]))

\* The positions in the resource of a file at which a message has the id.
Occurrences(content, id) ==
    {i \in 1..Len(content.body) :
        content.body[i].type = "Message" /\ content.body[i].id = id}

\* The duplicate diagnostics of a file for the message id.
DuplicatesOf(map, uri, id) ==
    SelectSeq(getDiagnosticsForUri(map, uri),
              LAMBDA d : d.code = Duplicate /\ d.args = <<<<"message">>, id>>)

\* (C1) Every diagnostic in the store was added after the latest read of its
\* file began: once read(file) has run, getDiagnosticsForUri of the file holds
\* nothing from before that read.
C1_NoDiagnosticFromBeforeRead ==
    \A i \in 1..Len(diagnostics) :
        \A j \in 1..Len(diagnostics[i].list) :
            diagnostics[i].list[j].stamp = reads[diagnostics[i].uri]

\* A file with diagnostics after the first pass has been read a second time and
\* has diagnostics again.
C1_Witness ==
    /\ firstPass # None
    /\ \E u \in DOMAIN files :
        /\ reads[u] = 2
        /\ getDiagnosticsForUri(firstPass[1], u) # <<>>
        /\ getDiagnosticsForUri(diagnostics, u) # <<>>

\* (C2) A second pass over the same discovery result leaves every file with the
\* diagnostics the first pass left it with, each as often as before.
C2_SecondPassLeavesSameDiagnostics ==
    (pass = 2 /\ status = "idle" /\ firstPass # None
     /\ \A u \in DOMAIN disk : ~disk[u].unsteady) =>
        \A u \in DOMAIN files :
            SameMultiset(getDiagnosticsForUri(diagnostics, u),
                         getDiagnosticsForUri(firstPass[1], u))

\* (C3) After a pass, a message id that a file defines k >= 2 times, and that is
\* not ignored, has k - 1 duplicate diagnostics in that file, one on each
\* occurrence after the first.
C3_DuplicatePerLaterOccurrence ==
    (pass = 1 /\ status = "idle") =>
        \A u \in DOMAIN files :
            \A m \in 1..Len(files[u].messages) :
                LET id == files[u].messages[m].id
                    occ == Occurrences(disk[u], id)
                    dups == DuplicatesOf(diagnostics, u, id)
                IN  (/\ Cardinality(occ) >= 2
                     /\ ~shouldIgnore(ignore, Duplicate, <<>>)
                     /\ \A n \in 1..Len(files[u].messages) :
                            files[u].messages[n].id = id =>
                                /\ ~files[u].messages[n].ignoreAll
                                /\ ~shouldIgnore({}, Duplicate, <<files[u].messages[n].ignore>>))
                    => /\ Len(dups) = Cardinality(occ) - 1
                       /\ {dups[i].span.start : i \in 1..Len(dups)}
                            = {disk[u].body[i].span.start : i \in occ \ {CHOOSE f \in occ : \A o \in occ : f <= o}}

\* ------------------------------------------------ files of a collection

\* The files of the source group of collection c, and those of its other groups.
SourceFiles(c) ==
    IF SourceGroupIndex(c) = 0 THEN {}
    ELSE RangeOf(discovered.collections[c].groups[SourceGroupIndex(c)].files)

TargetFiles(c) ==
    UNION {RangeOf(discovered.collections[c].groups[g].files) :
            g \in (1..Len(discovered.collections[c].groups)) \ {SourceGroupIndex(c)}}

\* The pairs of a source file and the file of the same name of another locale.
Matched ==
    UNION {{p \in {<<u, v>> : u \in SourceFiles(c), v \in TargetFiles(c)} :
                files[p[1]].name = files[p[2]].name} :
            c \in 1..Len(discovered.collections)}

\* The warnings with the code among the diagnostics of a file.
WarningsOf(uri, code) ==
    SelectSeq(getDiagnosticsForUri(diagnostics, uri),
              LAMBDA d : d.severity = Warning /\ d.code = code)

\* A resource without any comment.
NoAnnotations(content) ==
    /\ content.readable
    /\ \A i \in 1..Len(content.body) : content.body[i].comment = <<>>

\* The path of a file of the collection in a locale directory, as displayed.
SynthesizedPath(c, locale, fileName) ==
    PathStr((IF useRelativePaths THEN <<>> ELSE BasePath)
            \o discovered.collections[c].path \o <<locale, fileName>>)

\* (C4) After discovery and a pass, a source file without annotations has, for
\* every other locale directory of its collection that lacks a file of its
\* name, one missing-file warning that names the path of the file in that
\* directory.
C4_OneMissingFilePerLocale ==
    (pass = 1 /\ status = "idle") =>
        \A c \in 1..Len(discovered.collections) :
            \A u \in SourceFiles(c) :
                \A e \in 1..Len(tree[discovered.collections[c].path]) :
                    LET locale == tree[discovered.collections[c].path][e].name
                        dir == Append(discovered.collections[c].path, locale)
                        named == SelectSeq(WarningsOf(u, MissingFile),
                                    LAMBDA d : d.args = <<SynthesizedPath(c, locale, u[Len(u)])>>)
                    IN  (/\ locale # sourceLocale
                         /\ NoAnnotations(disk[u])
                         /\ \A i \in 1..Len(tree[dir]) : tree[dir][i].name # u[Len(u)])
                        => Len(named) = 1

\* The ids of the messages of the source file that the target file lacks.
AbsentIds(u, v) ==
    {files[u].messages[n].id : n \in 1..Len(files[u].messages)}
    \ {files[v].messages[n].id : n \in 1..Len(files[v].messages)}

\* How many messages of the file have the id and the policy Required.
RequiredCount(u, id) ==
    Cardinality({n \in 1..Len(files[u].messages) :
                    files[u].messages[n].id = id
                    /\ files[u].messages[n].translate = Required})

MissingMessagesOf(v, id) ==
    SelectSeq(WarningsOf(v, MissingMessage), LAMBDA d : d.args = <<id>>)

DropsDeclared(u, i, v, j) ==
    /\ disk[u].body[i].type = "Message" /\ disk[v].body[j].type = "Message"
    /\ disk[u].body[i].id = disk[v].body[j].id
    /\ disk[v].body[j].comment = <<>>
    /\ \E k \in 1..Len(collectVariables(disk[u].body[i].value)) :
        LET name == collectVariables(disk[u].body[i].value)[k]
        IN  /\ disk[u].body[i].comment = Line(AtParam \o <<" ", "$">> \o name)
            /\ name \notin RangeOf(collectVariables(disk[v].body[j].value))

\* (C6) When a source message uses $name and declares `@param $name`, and the
\* target message drops $name, the analysis completes and the target message
\* has one missing-required-variable warning.
C6_DroppedVariableReported ==
    \A p \in Matched :
        \A i \in 1..Len(disk[p[1]].body), j \in 1..Len(disk[p[2]].body) :
            DropsDeclared(p[1], i, p[2], j) =>
                /\ status # "thrown"
                /\ (pass = 1 /\ status = "idle") =>
                        Len(SelectSeq(WarningsOf(p[2], MissingRequiredVariable),
                                LAMBDA d : d.span.start = disk[p[2]].body[j].span.start)) = 1

\* (C7) No warning in the store has a code that the analyzer's ignore list
\* holds, or the category of which it holds.
C7_EngineIgnoreSilences ==
    \A i \in 1..Len(diagnostics) :
        \A j \in 1..Len(diagnostics[i].list) :
            diagnostics[i].list[j].severity = Warning =>
                /\ diagnostics[i].list[j].code \notin ignore
                /\ getWarningCategory(diagnostics[i].list[j].code) \notin ignore

\* The spans of the identifier of an entry and of the identifiers of its attributes.
IdSpans(entry) ==
    {entry.idSpan} \cup {entry.attributes[a].idSpan : a \in 1..Len(entry.attributes)}

\* (C9) No warning of a file has the span of the identifier of a message or term
\* with ignoreAll, or of the identifier of one of its attributes.
C9_IgnoreAllSilences ==
    \A u \in DOMAIN files :
        \A n \in 1..Len(files[u].messages \o files[u].terms) :
            LET entry == (files[u].messages \o files[u].terms)[n]
            IN  entry.ignoreAll =>
                    \A k \in 1..Len(getDiagnosticsForUri(diagnostics, u)) :
                        LET d == getDiagnosticsForUri(diagnostics, u)[k]
                        IN  d.severity = Warning => d.span \notin IdSpans(entry)

\* The category of a code: the code itself for do-not-translate and for a code
\* without "-", and otherwise what precedes its first "-".
CategoryOf(code) ==
    IF code = DoNotTranslate \/ "-" \notin RangeOf(code) THEN code
    ELSE SubSeq(code, 1,
            CHOOSE n \in 0..(Len(code) - 1) :
                code[n + 1] = "-" /\ \A i \in 1..n : code[i] # "-")

\* (C8) shouldIgnore answers true exactly when one of the sets passed, or the
\* ignore list of the analyzer, holds the code or the category of the code.
C8_TrueIffCodeOrCategoryListed ==
    answer # None =>
        answer[1].result =
            \E set \in RangeOf(answer[1].sets) \cup {ignore} :
                answer[1].code \in set \/ CategoryOf(answer[1].code) \in set

\* missing-message is asked about with a set that holds only its category, on
\* an analyzer that ignores nothing, and is ignored.
C8_Witness ==
    /\ answer # None
    /\ ignore = {}
    /\ answer[1].code = MissingMessage
    /\ answer[1].sets = <<{<<"missing">>}>>
    /\ answer[1].result

\* The files the DiscoveryResult lists, group by group, then the ungrouped ones.
Listed ==
    Concat([c \in 1..Len(discovered.collections) |->
                Concat([g \in 1..Len(discovered.collections[c].groups) |->
                            discovered.collections[c].groups[g].files])])
    \o discovered.ungrouped.files

\* The .ftl files that are reached from the base directory through directories
\* whose names do not start with ".".
Reachable ==
    {p \in FtlFiles(tree) : \A i \in 1..(Len(p) - 1) : ~IsHidden(p[i])}

\* (C10) No file is listed twice in the DiscoveryResult, its uris are the files
\* it lists, and once discovery is done every reachable .ftl file is listed.
C10_DiscoveryPartitions ==
    /\ \A i, j \in 1..Len(Listed) : Listed[i] = Listed[j] => i = j
    /\ discovered.uris = RangeOf(Listed)
    /\ status \notin {"new", "discovering"} => Reachable \subseteq RangeOf(Listed)

\* Discovery is done and found a collection, ungrouped files, and left out a
\* file of a hidden directory.
C10_Witness ==
    /\ status = "idle"
    /\ discovered.collections # <<>>
    /\ discovered.ungrouped.files # <<>>
    /\ FtlFiles(tree) \ Reachable # {}
    /\ FtlFiles(tree) \ RangeOf(Listed) # {}

\* ------------------------------------------- the order of the listings

\* The orders in which readdir may list the entries s.
Orders(s) == {[i \in 1..Len(s) |-> s[p[i]]] : p \in Permutations(1..Len(s))}

\* The trees that hold what t holds, every directory listed in some order.
RECURSIVE ReorderedOver(_, _)
ReorderedOver(t, dirs) ==
    IF dirs = {} THEN {<<>>}
    ELSE LET d == CHOOSE x \in dirs : TRUE
         IN  {[x \in (DOMAIN r) \cup {d} |-> IF x = d THEN o ELSE r[x]] :
                r \in ReorderedOver(t, dirs \ {d}), o \in Orders(t[d])}

Reordered(t) == ReorderedOver(t, DOMAIN t)

\* What a DiscoveryResult says apart from the order of its lists: the URIs, the
\* collections with their locales and the files of each, the ungrouped files,
\* and how many collections and ungrouped files it lists.
Partition(ctx) ==
    [uris |-> ctx.uris,
     collections |->
        {[path |-> ctx.collections[c].path,
          groups |-> {[locale |-> ctx.collections[c].groups[g].locale,
                       files |-> RangeOf(ctx.collections[c].groups[g].files)] :
                      g \in 1..Len(ctx.collections[c].groups)}] :
         c \in 1..Len(ctx.collections)},
     ungrouped |-> RangeOf(ctx.ungrouped.files),
     count |-> <<Len(ctx.collections), Len(ctx.ungrouped.files)>>]

\* (C11) Once discovery is done, its result is, apart from the order of its
\* lists, the result of discovery on the same tree with the entries of every
\* directory listed in any other order (and so of any further run).
C11_DiscoveryOrderIndependent ==
    (status = "idle" /\ pass = 0) =>
        \A t \in Reordered(tree) : Partition(discover(t)) = Partition(discovered)

\* Discovery is done on a tree with a collection of two locales and ungrouped
\* files, and another order of the listings gives the groups in another order.
C11_Witness ==
    /\ status = "idle" /\ pass = 0
    /\ discovered.ungrouped.files # <<>>
    /\ \E c \in 1..Len(discovered.collections) :
            Len(discovered.collections[c].groups) >= 2
    /\ \E t \in Reordered(tree) : discover(t).collections # discovered.collections

\* ------------------------------------------------ annotation directives

\* The file was read once, in the first pass, and its resource holds nothing
\* but messages, so that its messages are those of the resource in their order.
ReadOnceMessagesOnly(u) ==
    /\ pass = 1 /\ reads[u] = 1 /\ disk[u].readable /\ ~disk[u].unsteady
    /\ \A n \in 1..Len(disk[u].body) : disk[u].body[n].type = "Message"

\* The MessageInfo of the entry had it no comment.
WithoutComment(u, entry) ==
    convertMessage(ignore, u, [entry EXCEPT !.comment = <<>>], newAnnotationState, FALSE).info

\* (C12) No annotation directive makes read or the comparison throw; a message
\* whose comment holds malformed directives only is what it would be without
\* them, and a message with the comment `@param $name` has the one parameter
\* name, required and without a type.
C12_DirectivesNeverThrow ==
    /\ status # "thrown"
    /\ \A u \in DOMAIN files :
        ReadOnceMessagesOnly(u) =>
            \A n \in 1..Len(disk[u].body) :
                /\ disk[u].body[n].comment \in DirectiveComments(MalformedDirectives) =>
                        files[u].messages[n] = WithoutComment(u, disk[u].body[n])
                /\ disk[u].body[n].comment = DirParam =>
                        files[u].messages[n].params = <<ParamInfo(Name, TRUE, <<>>, <<>>)>>

\* ---------------------------------------------------------- severities

\* The annotations of the Junk entries of a resource, in their order.
JunkAnnotations(content) ==
    Concat([i \in 1..Len(content.body) |->
                IF content.body[i].type = "Junk" THEN content.body[i].annotations
                ELSE <<>>])

\* The diagnostics of a file that have the severity Error.
ErrorsOf(uri) ==
    SelectSeq(getDiagnosticsForUri(diagnostics, uri), LAMBDA d : d.severity = Error)

\* The diagnostic is the annotation of the parser as it is.
ReportsAnnotation(d, annot) ==
    d.code = annot.code /\ d.span = annot.span /\ d.args = annot.args

\* (C13) The Error diagnostics of a file that has been parsed are the Junk
\* annotations of its resource, one for each, and every diagnostic with one of
\* the warning codes has the severity Warning.
C13_SeverityInvariant ==
    /\ \A u \in DOMAIN files :
        (reads[u] >= 1 /\ disk[u].readable /\ ~disk[u].unsteady) =>
            /\ Len(ErrorsOf(u)) = Len(JunkAnnotations(disk[u]))
            /\ \A k \in 1..Len(JunkAnnotations(disk[u])) :
                    Cardinality({e \in 1..Len(ErrorsOf(u)) :
                        ReportsAnnotation(ErrorsOf(u)[e], JunkAnnotations(disk[u])[k])}) = 1
    /\ \A i \in 1..Len(diagnostics) :
        \A j \in 1..Len(diagnostics[i].list) :
            /\ diagnostics[i].list[j].code \in WarnCodes =>
                    diagnostics[i].list[j].severity = Warning
            /\ diagnostics[i].list[j].severity = Error =>
                    \E k \in 1..Len(JunkAnnotations(disk[diagnostics[i].uri])) :
                        ReportsAnnotation(diagnostics[i].list[j],
                                          JunkAnnotations(disk[diagnostics[i].uri])[k])

\* ---------------------------------------------------- order of a pass

\* The files of every group of collection c.
CollectionFiles(c) ==
    UNION {RangeOf(discovered.collections[c].groups[g].files) :
            g \in 1..Len(discovered.collections[c].groups)}

IsComparison(step) == step.op \in {"check", "compare"}

\* (C14) In a pass, when checkSourceGroup or compareGroups runs for a group of a
\* collection, every file of every group of the collection has been read in
\* this pass, and no file of the collection is read after it in this pass.
C14_ReadsBeforeComparisons ==
    \A i \in 1..Len(taken) :
        (IsComparison(taken[i]) /\ taken[i].c # 0) =>
            /\ \A u \in CollectionFiles(taken[i].c) :
                    \E j \in 1..(i - 1) : taken[j].op = "read" /\ taken[j].uri = u
            /\ \A j \in (i + 1)..Len(taken) :
                    taken[j].op = "read" => taken[j].uri \notin CollectionFiles(taken[i].c)

\* A pass is done in which a collection of two locales was compared, files
\* were read after that, and a diagnostic of the comparison is in the store.
C14_Witness ==
    /\ status = "idle" /\ pass = 2
    /\ \E i \in 1..Len(taken) :
        /\ taken[i].op = "compare"
        /\ Cardinality(CollectionFiles(taken[i].c)) >= 2
        /\ \E j \in (i + 1)..Len(taken) : taken[j].op = "read"
        /\ \E u \in CollectionFiles(taken[i].c) : WarningsOf(u, UnknownFile) # <<>>

\* ------------------------------------------------------------ bundles

\* What a step adds to the diagnostics of a file.
Added(uri) ==
    SubSeq(getDiagnosticsForUri(diagnostics', uri),
           Len(getDiagnosticsForUri(diagnostics, uri)) + 1,
           Len(getDiagnosticsForUri(diagnostics', uri)))

\* (C15) When compareGroups compares a file with the file of its name of the
\* source locale and their bundles differ, it adds one mismatch-file-bundle
\* warning to the file and nothing else to the two files; when their bundles
\* are equal it adds no mismatch-file-bundle warning.
C15_BundleMismatchShortCircuits ==
    [][(status = "running" /\ todo # <<>> /\ Head(todo).op = "compare") =>
        \A v \in RangeOf(GroupOf(Head(todo).c, Head(todo).g).files) :
            \A u \in SourceFiles(Head(todo).c) :
                files[u].name = files[v].name =>
                    IF files[u].bundle # files[v].bundle
                    THEN /\ Len(Added(v)) = 1
                         /\ Added(v)[1].severity = Warning
                         /\ Added(v)[1].code = MismatchFileBundle
                         /\ Added(u) = <<>>
                    ELSE \A k \in 1..Len(Added(v)) : Added(v)[k].code # MismatchFileBundle
      ]_vars

\* The files of a pair were compared: the bundles of the two differ, one being
\* the global one and the other one not set or named, and the target has the
\* one warning, although it repeats a message and lacks another.
C15_Witness ==
    /\ status = "idle" /\ pass = 1
    /\ \E p \in Matched :
        /\ files[p[1]].bundle # files[p[2]].bundle
        /\ Some(<<>>) \in {files[p[1]].bundle, files[p[2]].bundle}
        /\ AbsentIds(p[1], p[2]) # {}
        /\ Cardinality(Occurrences(disk[p[2]], <<"m">>)) = 2
        /\ Len(getDiagnosticsForUri(diagnostics, p[2])) = 1
        /\ Len(WarningsOf(p[2], MismatchFileBundle)) = 1

\* -------------------------------------------------- identical messages

\* The pairs compareMessages is called with for a pair of matched files of the
\* same bundle: every message of the source with the last message of its id of
\* the target.  A pair is <<uri of the target, target message, source message>>.
MessagePairs ==
    UNION {{<<p[2], LastWithId(files[p[2]].messages, files[p[1]].messages[n].id),
              files[p[1]].messages[n]>> :
                n \in {k \in 1..Len(files[p[1]].messages) :
                        HasId(files[p[2]].messages, files[p[1]].messages[k].id)}} :
           p \in {q \in Matched : files[q[1]].bundle = files[q[2]].bundle}}

\* The warnings with the code on the message itself (not on its attributes).
MessageWarnings(uri, message, code) ==
    SelectSeq(WarningsOf(uri, code),
              LAMBDA d : d.span = message.idSpan /\ d.args[1] = <<"Message">>)

\* The message neither ignores everything nor the code, nor does the analyzer.
Reports(message, code) ==
    /\ ~message.ignoreAll
    /\ \A set \in {message.ignore, ignore} :
            code \notin set /\ CategoryOf(code) \notin set

ExpectEq(message, srcMessage) == ExpectsIdentical(message) \/ ExpectsIdentical(srcMessage)

\* Both values absent, or both present and the same.
IsEq(message, srcMessage) ==
    IF HasPattern(message.value) /\ HasPattern(srcMessage.value)
    THEN NodeEquals(message.value, srcMessage.value)
    ELSE ~HasPattern(message.value) /\ ~HasPattern(srcMessage.value)

\* How many source messages the target message is paired with under a condition.
PairedWith(uri, message, Cond(_, _)) ==
    Cardinality({q \in MessagePairs : q[1] = uri /\ q[2] = message /\ Cond(q[2], q[3])})

\* The target has no value, the source has one, and a side is flagged.
ExpectedOfValueless(message, srcMessage) ==
    ExpectEq(message, srcMessage) /\ HasPattern(srcMessage.value)
    /\ ~HasPattern(message.value)

IdenticalCodes == {Identical, MismatchIdentical}

MessagesOf(uri) == {<<uri, files[uri].messages[n]>> : n \in 1..Len(files[uri].messages)}

DisablesMissingFile(content) ==
    \E i \in 1..Len(content.body) :
        /\ content.body[i].type = "ResourceComment"
        /\ \E k \in 1..Len(readAnnots(content.body[i].comment).annotations) :
            LET annot == readAnnots(content.body[i].comment).annotations[k]
            IN  /\ annot.name = AtDiagnostic
                /\ annot.value \in {<<"disable", " ">> \o MissingFile,
                                    <<"disable", " ", "missing">>}

\* The translation policy the resource comments of a file leave in force.
RECURSIVE ResourcePolicy(_, _)
ResourcePolicy(body, translate) ==
    IF body = <<>> THEN translate
    ELSE ResourcePolicy(Tail(body),
            IF Head(body).type # "ResourceComment" THEN translate
            ELSE handleResourceAnnotations([newAnnotationState EXCEPT !.translate = translate],
                    readAnnots(Head(body).comment).annotations).translate)

\* The groups of collection c, other than the source group, without a file of
\* the name of the file u.
GroupsLacking(c, u) ==
    {g \in (1..Len(discovered.collections[c].groups)) \ {SourceGroupIndex(c)} :
        \A v \in RangeOf(discovered.collections[c].groups[g].files) :
            files[v].name # files[u].name}

\* The missing-file warnings of the source file u that name its path in the
\* directory of the group g of collection c.
MissingFileWarnings(c, u, g) ==
    SelectSeq(WarningsOf(u, MissingFile),
        LAMBDA d : d.args = <<SynthesizedPath(c, discovered.collections[c].groups[g].locale,
                                              u[Len(u)])>>)

\* (C18) After a pass, a source file has no missing-file warning for a group
\* that lacks it if its resource comments hold `@diagnostic disable
\* missing-file` or `@diagnostic disable missing`, or leave a translation policy
\* other than Required in force, and it has one such warning otherwise.
C18_MissingFileSuppression ==
    (pass = 1 /\ status = "idle") =>
        \A c \in 1..Len(discovered.collections) :
            \A u \in SourceFiles(c) :
                disk[u].readable =>
                    \A g \in GroupsLacking(c, u) :
                        Len(MissingFileWarnings(c, u, g)) =
                            IF DisablesMissingFile(disk[u])
                               \/ ResourcePolicy(disk[u].body, Required) # Required
                            THEN 0 ELSE 1

\* -------------------------------------------------------------- C19

\* Whether the read of u in the latest pass failed.
ReadFailed(u) ==
    \E i \in 1..Len(taken) : taken[i].op = "read" /\ taken[i].uri = u /\ ~taken[i].ok

\* What the checks of collection c report on u when u is an empty file that is
\* there: the record of a file with no entry.
AsEmptyFile(c, u) ==
    LET fs == [files EXCEPT ![u] = createFileRecord(u)]
        groups == discovered.collections[c].groups
        s == SourceGroupIndex(c)
    IN  IF s = 0 THEN <<>>
        ELSE SelectSeq(
                checkSourceGroup(ignore, FilesOf(fs, groups[s]))
                \o Concat([g \in 1..Len(groups) |->
                        IF g = s THEN <<>>
                        ELSE compareGroups(ignore, useRelativePaths, groups[g].locale,
                                           FilesOf(fs, groups[g]), FilesOf(fs, groups[s]))]),
                LAMBDA e : e.uri = u)

\* Whether two lists of diagnostics hold every code the same number of times.
SameCodes(list, other) ==
    \A k \in {list[i].code : i \in 1..Len(list)} \cup {other[i].code : i \in 1..Len(other)} :
        Cardinality({i \in 1..Len(list) : list[i].code = k})
            = Cardinality({i \in 1..Len(other) : other[i].code = k})

\* (C19) A read that fails does not end the pass; a file whose read failed in
\* the latest pass has no message and no term, also when an earlier read of it
\* succeeded; and once the pass is complete its diagnostics are those of an
\* empty file that is there, with no missing-file warning naming it.
C19_FailedReadLeavesEmptyFile ==
    /\ (taken # <<>> /\ taken[Len(taken)].op = "read" /\ ~taken[Len(taken)].ok) =>
            status # "thrown"
    /\ \A u \in DOMAIN files :
            ReadFailed(u) => files[u].messages = <<>> /\ files[u].terms = <<>>
    /\ (status = "idle" /\ pass >= 1) =>
            \A c \in 1..Len(discovered.collections) :
                \A u \in CollectionFiles(c) :
                    ReadFailed(u) =>
                        SameCodes(getDiagnosticsForUri(diagnostics, u), AsEmptyFile(c, u))

\* -------------------------------------------------------------- C20

\* The identifiers of the variable references anywhere in a tree.
RECURSIVE VariableRefs(_)
VariableRefs(node) ==
    (IF node.type = "VariableReference" THEN {node.name} ELSE {})
    \cup UNION {VariableRefs(node.kids[i]) : i \in 1..Len(node.kids)}

\* (C20) The variables collected for the value of a message are exactly the
\* identifiers of the variable references anywhere in the value: in placeables,
\* among the positional arguments of function references, in the selector of a
\* select expression and in the values of its variants, at any depth.
C20_VariablesComplete ==
    status # "thrown" =>
        \A u \in DOMAIN files :
            ReadOnceMessagesOnly(u) =>
                \A n \in 1..Len(disk[u].body) :
                    RangeOf(files[u].messages[n].variables)
                        = VariableRefs(disk[u].body[n].value)

\* -------------------------------------------------------------- C21

\* A file that has been read once, with success.
ReadOnce(u) ==
    pass = 1 /\ reads[u] = 1 /\ disk[u].readable /\ ~disk[u].unsteady /\ status # "thrown"

\* The places in a body of the entries of a type, in order.
PositionsOf(body, type) ==
    SelectSeq([i \in 1..Len(body) |-> i], LAMBDA i : body[i].type = type)

\* The @diagnostic directives of a comment, in order: whether each is an
\* enable, whether nothing follows its first word, and the codes it lists.
Directives(comment) ==
    LET annots == SelectSeq(readAnnots(comment).annotations,
                    LAMBDA a : /\ a.name = AtDiagnostic
                               /\ a.value # <<>>
                               /\ a.value[1] \in {"enable", "disable"}
                               /\ (Len(a.value) = 1 \/ a.value[2] = " "))
    IN  [j \in 1..Len(annots) |->
            [enable |-> annots[j].value[1] = "enable",
             bare |-> Len(annots[j].value) = 1,
             codes |-> IF Len(annots[j].value) = 1 THEN {}
                       ELSE diagnosticList(diagnosticCodes(SliceFrom(annots[j].value, 2)))]]

\* The directives of the resource comments before place i of a body.
DirectivesBefore(body, i) ==
    Concat([j \in 1..(i - 1) |->
        IF body[j].type = "ResourceComment" THEN Directives(body[j].comment) ELSE <<>>])

Naming(ds, code) == {j \in 1..Len(ds) : code \in ds[j].codes}

\* Whether the last of the directives naming the code is a disable.
LastDisables(ds, code) ==
    Naming(ds, code) # {}
    /\ ~ds[CHOOSE j \in Naming(ds, code) : \A k \in Naming(ds, code) : k <= j].enable

\* (C21) After a read, a code that @diagnostic directives with a list name is in
\* the ignore set of an entry exactly when the last directive naming it is a
\* disable: the last one of the entry's own comment, or, when none of them names
\* it, the last one of the resource comments before the entry.
C21_LastDirectiveDecides ==
    \A u \in DOMAIN files :
        ReadOnce(u) =>
            \A type \in {"Message", "Term"} :
                \A k \in 1..Len(PositionsOf(disk[u].body, type)) :
                    LET i == PositionsOf(disk[u].body, type)[k]
                        info == IF type = "Term" THEN files[u].terms[k]
                                ELSE files[u].messages[k]
                        own == Directives(disk[u].body[i].comment)
                        before == DirectivesBefore(disk[u].body, i)
                    IN  \A code \in {Identical, Duplicate} :
                            (code \in info.ignore) =
                                IF Naming(own, code) # {} THEN LastDisables(own, code)
                                ELSE LastDisables(before, code)

\* -------------------------------------------------------------- C22

\* The codes the directives of a sequence list.
ListedBy(ds) == UNION {ds[j].codes : j \in 1..Len(ds)}

\* (C22) After a read, an entry whose comment ends with a @diagnostic directive
\* that has nothing after its first word has ignoreAll true when the word is
\* disable and false when it is enable, and its ignore set holds nothing but
\* codes that directives with a list name.
C22_BareDirectiveSetsIgnoreAll ==
    \A u \in DOMAIN files :
        ReadOnce(u) =>
            \A k \in 1..Len(PositionsOf(disk[u].body, "Message")) :
                LET i == PositionsOf(disk[u].body, "Message")[k]
                    info == files[u].messages[k]
                    own == Directives(disk[u].body[i].comment)
                IN  (own # <<>> /\ own[Len(own)].bare) =>
                        /\ info.ignoreAll = ~own[Len(own)].enable
                        /\ info.ignore \subseteq
                            ListedBy(own) \cup ListedBy(DirectivesBefore(disk[u].body, i))

\* -------------------------------------------------------------- C23

\* The @diagnostic annotations of a sequence applied in order to a target.
RECURSIVE DiagnosticsApplied(_, _)
DiagnosticsApplied(target, annots) ==
    IF annots = <<>> THEN target
    ELSE DiagnosticsApplied(
            IF Head(annots).name = AtDiagnostic
            THEN handleDiagnosticAnnotation(target, Head(annots)) ELSE target,
            Tail(annots))

\* The annotations of the resource comments before place i of a body.
ResourceAnnotationsBefore(body, i) ==
    Concat([j \in 1..(i - 1) |->
        IF body[j].type = "ResourceComment" THEN readAnnots(body[j].comment).annotations
        ELSE <<>>])

\* The ignore set of the entry at place i of a body when nothing but the
\* resource comments before it and its own comment has a part in it.
OwnIgnore(body, i) ==
    DiagnosticsApplied(
        [ignoreAll |-> FALSE,
         ignore |-> DiagnosticsApplied([ignoreAll |-> FALSE, ignore |-> {}],
                        ResourceAnnotationsBefore(body, i)).ignore],
        readAnnots(body[i].comment).annotations).ignore

\* (C23) After a read, the ignore set of every message and term is the set the
\* resource-level directives before the entry give, changed by the directives of
\* the entry's own comment and by nothing else: not by the directives of another
\* entry, of the same file or of another, and not by a resource-level directive
\* that comes after the entry.
C23_IgnoreSetsIsolated ==
    \A u \in DOMAIN files :
        ReadOnce(u) =>
            \A type \in {"Message", "Term"} :
                \A k \in 1..Len(PositionsOf(disk[u].body, type)) :
                    (IF type = "Term" THEN files[u].terms[k] ELSE files[u].messages[k]).ignore
                        = OwnIgnore(disk[u].body, PositionsOf(disk[u].body, type)[k])

\* A file read in which the message d has emptied its own set, the term after it
\* has the set of the resource comment at the head, and the message k has the
\* set a later resource comment added to.
C23_Witness ==
    \E u \in DOMAIN files :
        /\ ReadOnce(u)
        /\ Len(files[u].messages) = 2 /\ Len(files[u].terms) = 1
        /\ files[u].messages[1].ignore = {}
        /\ files[u].terms[1].ignore = {Identical}
        /\ files[u].messages[2].ignore = {Identical, Duplicate}
        /\ Len(disk[u].body) = 5

\* -------------------------------------------------------------- C24

\* A file every read of which has succeeded, the latest one included.
ReadWell(u) ==
    reads[u] >= 1 /\ disk[u].readable /\ ~disk[u].unsteady /\ status # "thrown"

PolicyOf(annot) ==
    CASE annot.name = AtTranslate -> Required
      [] annot.name = AtDoNotTranslate -> Disallowed
      [] annot.name = AtTranslateOptional -> Optional

\* The policy the resource-level annotations before place i of a body set:
\* that of the last of them, Required when there is none.
PolicyBefore(body, i) ==
    LET set == SelectSeq(ResourceAnnotationsBefore(body, i),
                   LAMBDA a : a.name \in {AtTranslate, AtDoNotTranslate, AtTranslateOptional})
    IN  IF set = <<>> THEN Required ELSE PolicyOf(set[Len(set)])

\* The place in the body of the entry that the k-th message or term of a file
\* record was converted from: every read appends the entries of the body.
PlaceOf(body, type, k) ==
    PositionsOf(body, type)[((k - 1) % Len(PositionsOf(body, type))) + 1]

\* (C24) A message or a term without annotations of its own, and each of its
\* attributes, has the policy that the last resource-level policy annotation
\* before it in the file sets, Required if there is none, whatever annotation
\* comes after it and whatever file or pass was read before.
C24_PolicyIsPositional ==
    \A u \in DOMAIN files :
        ReadWell(u) =>
            \A type \in {"Message", "Term"} :
                LET infos == IF type = "Term" THEN files[u].terms ELSE files[u].messages
                IN  \A k \in 1..Len(infos) :
                        LET i == PlaceOf(disk[u].body, type, k)
                        IN  readAnnots(disk[u].body[i].comment).annotations = <<>> =>
                                /\ infos[k].translate = PolicyBefore(disk[u].body, i)
                                /\ \A a \in 1..Len(infos[k].attributes) :
                                        infos[k].attributes[a].translate
                                            = PolicyBefore(disk[u].body, i)

\* A file read twice whose entries before the second resource comment are
\* Optional and whose message after it is Disallowed, with an annotation that
\* sets Required at the end of the file.
C24_Witness ==
    \E u \in DOMAIN files :
        /\ ReadWell(u) /\ reads[u] = 2
        /\ Len(files[u].messages) = 4 /\ Len(files[u].terms) = 2
        /\ files[u].messages[3].translate = Optional
        /\ files[u].messages[3].attributes[1].translate = Optional
        /\ files[u].terms[2].attributes[1].translate = Optional
        /\ files[u].messages[4].translate = Disallowed
        /\ disk[u].body[Len(disk[u].body)].type = "ResourceComment"
        /\ PolicyBefore(disk[u].body, Len(disk[u].body) + 1) = Required

\* -------------------------------------------------------------- C25

\* The two properties a targeted annotation sets, as read from an entry or an
\* attribute.
Props(x) == [translate |-> x.translate, expectIdentical |-> ExpectsIdentical(x)]

SetTargeted(props, annot) ==
    IF annot.name = AtExpectIdentical THEN [props EXCEPT !.expectIdentical = TRUE]
    ELSE [props EXCEPT !.translate = PolicyOf(annot)]

\* The target of a targeted annotation: what follows its name, without what
\* follows a "#".
TargetOf(annot) == diagnosticCodes(annot.value)

\* The properties of the entry and of its attributes after the targeted
\* annotations of a comment, when each of them changes its target and nothing
\* else: e is [own |-> properties, attrs |-> properties by attribute].
RECURSIVE TargetedApplied(_, _)
TargetedApplied(e, annots) ==
    IF annots = <<>> THEN e
    ELSE TargetedApplied(
            IF Head(annots).name \notin TargetedNames THEN e
            ELSE IF TargetOf(Head(annots)) = <<>>
            THEN [e EXCEPT !.own = SetTargeted(@, Head(annots))]
            ELSE IF TargetOf(Head(annots)) = <<"*">>
            THEN [e EXCEPT !.attrs = [a \in DOMAIN @ |-> SetTargeted(@[a], Head(annots))]]
            ELSE IF TargetOf(Head(annots)) \in DOMAIN e.attrs
            THEN [e EXCEPT !.attrs[TargetOf(Head(annots))] = SetTargeted(@, Head(annots))]
            ELSE e,
            Tail(annots))

\* The properties of the entry at place i of a body and of its attributes.
TargetedAt(body, i) ==
    TargetedApplied(
        [own |-> [translate |-> PolicyBefore(body, i), expectIdentical |-> FALSE],
         attrs |-> [a \in {body[i].attributes[j].id : j \in 1..Len(body[i].attributes)} |->
                        [translate |-> PolicyBefore(body, i), expectIdentical |-> FALSE]]],
        readAnnots(body[i].comment).annotations)

\* (C25) After a read, the policy and the expect-identical flag of every entry
\* and of each of its attributes are those that the resource-level policy and
\* the entry's own targeted annotations give when an annotation without a value
\* sets the entry alone, one with `*` every attribute alone, one with the name
\* of an attribute that attribute alone, and one with any other name nothing.
C25_TargetedChangesItsTarget ==
    \A u \in DOMAIN files :
        ReadOnce(u) =>
            \A type \in {"Message", "Term"} :
                \A k \in 1..Len(PositionsOf(disk[u].body, type)) :
                    LET i == PositionsOf(disk[u].body, type)[k]
                        info == IF type = "Term" THEN files[u].terms[k]
                                ELSE files[u].messages[k]
                    IN  /\ Props(info) = TargetedAt(disk[u].body, i).own
                        /\ \A a \in 1..Len(info.attributes) :
                            Props(info.attributes[a])
                                = TargetedAt(disk[u].body, i).attrs[info.attributes[a].id]

\* -------------------------------------------------------------- C26

\* The first pass has ended, by returning or by an exception.
PassEnded == pass = 1 /\ status \in {"idle", "thrown"}

\* compareGroups was called on the group of the file in this pass.
WasCompared(u) ==
    \E i \in 1..Len(taken) :
        /\ taken[i].op = "compare"
        /\ u \in RangeOf(GroupOf(taken[i].c, taken[i].g).files)

\* The warnings with the code at a span of a file.
WarningsAt(uri, span, code) ==
    SelectSeq(WarningsOf(uri, code), LAMBDA d : d.span = span)

\* The codes compareAttributes has for the attributes of messages.
AttributeCodes == {MissingAttribute, UnknownAttribute, Identical, MismatchIdentical}

\* The source message has the attribute id with the policy Required.
RequiresAttribute(srcMessage, id) ==
    RecHas(srcMessage.attributes, id) /\ RecGet(srcMessage.attributes, id).translate = Required

\* (C26) After a pass in which a file was compared with its source file: a
\* message has, for every attribute id of a source message it is paired with,
\* one missing-attribute warning per paired source message that has the
\* attribute with the policy Required, if the message has no attribute of that
\* id, and none otherwise; an attribute of the message has one
\* unknown-attribute warning per paired source message without an attribute of
\* its id, and no do-not-translate, identical or mismatch-identical warning
\* when no paired source message has it; and the attributes of terms have no
\* missing-attribute, unknown-attribute, identical or mismatch-identical
\* warning.  A message that ignores a code has no warning of that code.
C26_AttributeDiff ==
    PassEnded =>
        /\ \A q \in MessagePairs :
            WasCompared(q[1]) =>
                /\ \A a \in 1..Len(q[3].attributes) :
                    LET id == q[3].attributes[a].id
                        found == SelectSeq(WarningsAt(q[1], q[2].idSpan, MissingAttribute),
                                    LAMBDA d : d.args = <<q[2].name \o <<".">> \o id>>)
                    IN  Len(found) =
                            IF Reports(q[2], MissingAttribute) /\ ~RecHas(q[2].attributes, id)
                            THEN PairedWith(q[1], q[2], LAMBDA m, sm : RequiresAttribute(sm, id))
                            ELSE 0
                /\ \A a \in 1..Len(q[2].attributes) :
                    LET attr == q[2].attributes[a]
                        unknown == PairedWith(q[1], q[2], LAMBDA m, sm :
                                        ~RecHas(sm.attributes, attr.id))
                        known == PairedWith(q[1], q[2], LAMBDA m, sm :
                                        RecHas(sm.attributes, attr.id))
                    IN  /\ Reports(q[2], UnknownAttribute) =>
                            Len(WarningsAt(q[1], attr.idSpan, UnknownAttribute)) = unknown
                        /\ known = 0 =>
                            \A code \in {DoNotTranslate, Identical, MismatchIdentical} :
                                WarningsAt(q[1], attr.idSpan, code) = <<>>
        /\ \A u \in DOMAIN files :
            WasCompared(u) =>
                \A k \in 1..Len(files[u].terms) :
                    \A a \in 1..Len(files[u].terms[k].attributes) :
                        \A code \in AttributeCodes :
                            /\ WarningsAt(u, files[u].terms[k].attributes[a].idSpan, code) = <<>>
                            /\ code \in {MissingAttribute, UnknownAttribute} =>
                                    WarningsAt(u, files[u].terms[k].idSpan, code) = <<>>

\* -------------------------------------------------------------- C27

\* The ids of the parameters of a record of parameters.
ParamIds(params) == {params[i].id : i \in 1..Len(params)}

\* The variable is neither referenced by the source entry nor declared by the
\* source entry or the entry.
Undeclared(variable, entry, srcEntry) ==
    /\ variable \notin RangeOf(srcEntry.variables)
    /\ variable \notin ParamIds(srcEntry.params) \cup ParamIds(entry.params)

\* The unknown-variable warnings for a variable at a span of a file.
UnknownVariableAt(uri, span, variable) ==
    SelectSeq(WarningsAt(uri, span, UnknownVariable),
              LAMBDA d : d.args[1] = <<"$">> \o variable)

\* The files checkSourceGroup is called with: those of the source groups and
\* the ungrouped ones.
CheckedAsSource ==
    UNION {SourceFiles(c) : c \in 1..Len(discovered.collections)}
        \cup RangeOf(discovered.ungrouped.files)

\* (C27) After a pass in which a file was compared with its source file: a
\* message has, for every variable it refers to, one unknown-variable warning
\* per paired source message that neither refers to the variable nor declares
\* it, unless the message declares it or ignores the code; so has each of its
\* attributes against the attribute of the same id of the source message; no
\* file of another locale than the source locale has an annotation-missing
\* warning; and no file of a source group or outside the groups has an
\* unknown-variable or annotation-type-mismatch warning.
C27_VariableChecks ==
    PassEnded =>
        /\ \A q \in MessagePairs :
            WasCompared(q[1]) =>
                /\ \A v \in RangeOf(q[2].variables) :
                    Len(UnknownVariableAt(q[1], q[2].idSpan, v)) =
                        IF Reports(q[2], UnknownVariable)
                        THEN PairedWith(q[1], q[2], LAMBDA m, sm : Undeclared(v, m, sm))
                        ELSE 0
                /\ \A a \in 1..Len(q[2].attributes) :
                    LET attr == q[2].attributes[a]
                    IN  \A v \in RangeOf(attr.variables) :
                            Len(UnknownVariableAt(q[1], attr.idSpan, v)) =
                                PairedWith(q[1], q[2], LAMBDA m, sm :
                                    /\ RecHas(sm.attributes, attr.id)
                                    /\ Undeclared(v, attr, RecGet(sm.attributes, attr.id)))
        /\ \A c \in 1..Len(discovered.collections) :
            \A u \in TargetFiles(c) : WarningsOf(u, AnnotationMissing) = <<>>
        /\ \A u \in CheckedAsSource :
            /\ WarningsOf(u, UnknownVariable) = <<>>
            /\ WarningsOf(u, AnnotationTypeMismatch) = <<>>

\* -------------------------------------------------------------- C28

\* The term at place k of the list has the id of a term before it.
RepeatsTerm(terms, k) == \E j \in 1..(k - 1) : terms[j].id = terms[k].id

\* The duplicate warnings for a term at a span of a file.
DuplicateTermAt(uri, term) ==
    SelectSeq(WarningsAt(uri, term.idSpan, Duplicate),
              LAMBDA d : d.args = <<<<"term">>, term.name>>)

\* (C28) After a pass, in a file that was compared with the file of its name
\* and of its bundle of the source locale, every term that has the id of a
\* term before it in the file, and does not ignore the code, has a duplicate
\* warning.
C28_DuplicateTermsInTarget ==
    (pass = 1 /\ status = "idle") =>
        \A p \in Matched :
            (files[p[1]].bundle = files[p[2]].bundle /\ WasCompared(p[2])) =>
                \A k \in 1..Len(files[p[2]].terms) :
                    (RepeatsTerm(files[p[2]].terms, k)
                        /\ Reports(files[p[2]].terms[k], Duplicate)) =>
                            Len(DuplicateTermAt(p[2], files[p[2]].terms[k])) = 1

\* -------------------------------------------------------------- C29

\* (C29) No file that the DiscoveryResult lists, in a group of a collection or
\* among the ungrouped files, is below a directory whose name starts with ".".
C29_HiddenDirectoriesSkipped == RangeOf(Listed) \subseteq Reachable

\* -------------------------------------------------------------- C30

\* (C30) The range of every diagnostic in the store starts at an index that is
\* not negative and not after its end, ends at an index within the content of
\* the file, and has lines and columns from 1 on.
C30_RangeWithinContent ==
    \A i \in 1..Len(getDiagnostics(diagnostics)) :
        LET d == getDiagnostics(diagnostics)[i]
        IN  /\ 0 <= d.range.start.index
            /\ d.range.start.index <= d.range.end.index
            /\ d.range.end.index <= files[d.uri].content
            /\ \A at \in {d.range.start, d.range.end} : at.line >= 1 /\ at.column >= 1

============================================================================
